---- MODULE Spec2Model ----
(***************************************************************************)
(* sql4go: a read-through / write-invalidate cache (Redis) in front of a   *)
(* relational store (GORM).  The model covers                              *)
(*   - pkg/redis/manager.go      the cache manager: plain and large values *)
(*                               (compression, chunking), dependency sets, *)
(*                               pattern invalidation;                     *)
(*   - pkg/repository/interface.go  the generic repository: cache-first    *)
(*                               reads, writes followed by invalidation,   *)
(*                               relationship detection from GORM tags.    *)
(* Redis values are byte strings and are modelled as TLA+ strings; cache   *)
(* keys are the strings the code builds.                                   *)
(***************************************************************************)
EXTENDS Integers, Sequences, FiniteSets, Bags, TLC

VARIABLES
    db,       \* the relational store: table -> (primary key present -> row)
    kv,       \* Redis string keys: key -> value (DOMAIN kv = the keys present)
    sets,     \* Redis set keys: key -> set of members
    faults,   \* the Redis commands that currently fail (backend errors)
    cacheMode, \* "nil": the repository has no cache manager; "disabled":
              \* Config.Enabled is false; "enabled"
    largeCfg, \* Config.LargeValue: EnableCompression, EnableChunking
    tagStyle, \* how the Order struct declares its User field (GORM tag)
    last,     \* the last call: its arguments and what it returned
    trace,    \* the store and cache commands the last call issued, in order
    failed,   \* history: some cache command has failed since the start
    calls,    \* the number of calls made so far
    repos,    \* the tables the program has built a repository for
    payload,  \* the bytes a caller hands to SetLarge directly
    clock,    \* Redis time: now, the expiry time of each key, and history:
              \* the links made to values that are still stored
    inflight  \* the calls in progress: what each has done and has yet to do

vars == <<db, kv, sets, faults, cacheMode, largeCfg, tagStyle, last, trace, failed,
          calls, repos, payload, clock, inflight>>

(***************************************************************************)
(* Bounds of the model.                                                    *)
(***************************************************************************)
\* LargeValueConfig, scaled down (bytes): MaxValueSize, ChunkSize, CompressThreshold
MaxValueSize == 8
ChunkSize == 5
CompressThreshold == 3
\* the longest payload handed to SetLarge directly
MaxPayloadLen == 9
\* SCAN walks the keyspace in this many cursor steps
ScanSlots == 2

\* a key without an expiry time
NoExpiry == 0 - 1

\* the clock at the start: no key, so no expiry time and no link
NoClock == [now |-> 0, exp |-> <<>>, links |-> {}]

\* no call is in progress
NoInflight == [op |-> "none"]

(***************************************************************************)
(* Strings (Go's strings and strconv packages, as far as the code uses     *)
(* them).                                                                  *)
(***************************************************************************)
HasPrefix(s, p) == Len(s) >= Len(p) /\ SubSeq(s, 1, Len(p)) = p

HasSuffix(s, p) == Len(s) >= Len(p) /\ SubSeq(s, Len(s) - Len(p) + 1, Len(s)) = p

TrimPrefix(s, p) == IF HasPrefix(s, p) THEN SubSeq(s, Len(p) + 1, Len(s)) ELSE s

TrimSuffix(s, p) == IF HasSuffix(s, p) THEN SubSeq(s, 1, Len(s) - Len(p)) ELSE s

\* the least i >= from with sub at position i of s, 0 when there is none
IndexFrom(s, sub, from) ==
    LET at == {i \in from..(Len(s) - Len(sub) + 1) : SubSeq(s, i, i + Len(sub) - 1) = sub}
    IN  IF at = {} THEN 0 ELSE CHOOSE i \in at : \A j \in at : i <= j

Contains(s, sub) == IndexFrom(s, sub, 1) > 0

\* strings.Split(s, sep)
RECURSIVE Split(_, _)
Split(s, sep) ==
    LET i == IndexFrom(s, sep, 1)
    IN  IF i = 0 THEN <<s>>
        ELSE <<SubSeq(s, 1, i - 1)>> \o Split(SubSeq(s, i + Len(sep), Len(s)), sep)

\* strings.ReplaceAll(s, old, new), old not empty
RECURSIVE ReplaceAll(_, _, _)
ReplaceAll(s, old, new) ==
    LET i == IndexFrom(s, old, 1)
    IN  IF i = 0 THEN s
        ELSE SubSeq(s, 1, i - 1) \o new
                 \o ReplaceAll(SubSeq(s, i + Len(old), Len(s)), old, new)

Digits == <<"0", "1", "2", "3", "4", "5", "6", "7", "8", "9">>

IsDigit(c) == \E d \in 1..10 : Digits[d] = c

DigitVal(c) == (CHOOSE d \in 1..10 : Digits[d] = c) - 1

IsNumber(s) == Len(s) > 0 /\ \A i \in 1..Len(s) : IsDigit(SubSeq(s, i, i))

\* the value of a string of digits (IsNumber tells whether it is one)
RECURSIVE Atoi(_)
Atoi(s) ==
    IF Len(s) = 0 THEN 0
    ELSE 10 * Atoi(SubSeq(s, 1, Len(s) - 1)) + DigitVal(SubSeq(s, Len(s), Len(s)))

\* strconv.Atoi accepts a sign before the digits: whether s parses
AtoiParses(s) ==
    IF Len(s) > 0 /\ SubSeq(s, 1, 1) \in {"+", "-"}
    THEN IsNumber(SubSeq(s, 2, Len(s)))
    ELSE IsNumber(s)

\* strconv.Atoi of a string that parses
AtoiSigned(s) ==
    IF SubSeq(s, 1, 1) = "-" THEN 0 - Atoi(SubSeq(s, 2, Len(s)))
    ELSE IF SubSeq(s, 1, 1) = "+" THEN Atoi(SubSeq(s, 2, Len(s)))
    ELSE Atoi(s)

\* fmt's %t
FormatBool(b) == IF b THEN "true" ELSE "false"

\* fmt's %d and %v of an integer
Itoa(n) == ToString(n)

RECURSIVE Repeat(_, _)
Repeat(c, n) == IF n = 0 THEN "" ELSE c \o Repeat(c, n - 1)

\* every string over the alphabet of length at most n
RECURSIVE StringsUpTo(_, _)
StringsUpTo(alphabet, n) ==
    IF n = 0 THEN {""}
    ELSE LET shorter == StringsUpTo(alphabet, n - 1)
         IN  shorter \cup {s \o c : s \in shorter, c \in alphabet}

(***************************************************************************)
(* Results of a Redis command, and the errors of the redis package.        *)
(***************************************************************************)
OK == "ok"
RedisNil == "redis.Nil"          \* go-redis: the key does not exist
RedisErr == "redis error"        \* any other error of the client
ErrKeyNotFound == "cache key not found"
ErrCacheDisabled == "redis cache is disabled"
ErrTooLarge == "value too large"
ErrInvalidMeta == "invalid metadata"
ErrGzip == "gzip error"
ErrJSON == "json error"

IsKeyNotFound(err) == err = ErrKeyNotFound

(***************************************************************************)
(* The Redis backend (go-redis UniversalClient).  A call threads the       *)
(* record r = [kv, sets, tr, bad, dropped]: the keyspace, the commands     *)
(* issued so far, whether one of them failed, and whether the caller has   *)
(* dropped the error of a cache call (best effort).  Every command is      *)
(* logged with the number of the submission (round trip) that carried it:  *)
(* the commands of one pipeline share a number.                            *)
(***************************************************************************)
NextSub(r) == IF r.tr = <<>> THEN 1 ELSE r.tr[Len(r.tr)].sub + 1

Logged(r, cmd, keys, sub) ==
    [r EXCEPT !.tr = Append(@, [sys |-> "redis", cmd |-> cmd, keys |-> keys, sub |-> sub])]

Broken(r) == [r EXCEPT !.bad = TRUE]

\* the caller goes on after an error it does not return
Dropped(r) == [r EXCEPT !.dropped = TRUE]

\* `_ = call` and `_, _ = call`: the backend as the call left it
Swallowed(x) == IF x.err # OK THEN Dropped(x.r) ELSE x.r

Without(f, keys) == [k \in DOMAIN f \ keys |-> f[k]]

\* GET key
RedisGet(r, key, sub) ==
    LET r1 == Logged(r, "GET", {key}, sub)
    IN  IF "GET" \in faults \/ key \in DOMAIN r.sets
        THEN [r |-> Broken(r1), err |-> RedisErr, val |-> ""]
        ELSE IF key \in DOMAIN r.kv
        THEN [r |-> r1, err |-> OK, val |-> r.kv[key]]
        ELSE [r |-> r1, err |-> RedisNil, val |-> ""]

\* SET key value EX ttl: replaces whatever the key held
RedisSet(r, key, val, sub) ==
    LET r1 == Logged(r, "SET", {key}, sub)
    IN  IF "SET" \in faults
        THEN [r |-> Broken(r1), err |-> RedisErr]
        ELSE [r |-> [r1 EXCEPT !.kv = (key :> val) @@ r.kv,
                               !.sets = Without(r.sets, {key})],
              err |-> OK]

\* DEL key [key ...]
RedisDel(r, keys, sub) ==
    LET r1 == Logged(r, "DEL", keys, sub)
    IN  IF "DEL" \in faults
        THEN [r |-> Broken(r1), err |-> RedisErr]
        ELSE [r |-> [r1 EXCEPT !.kv = Without(r.kv, keys),
                               !.sets = Without(r.sets, keys)],
              err |-> OK]

\* EXISTS key
RedisExists(r, key, sub) ==
    LET r1 == Logged(r, "EXISTS", {key}, sub)
    IN  IF "EXISTS" \in faults
        THEN [r |-> Broken(r1), err |-> RedisErr, val |-> FALSE]
        ELSE [r |-> r1, err |-> OK, val |-> key \in DOMAIN r.kv \cup DOMAIN r.sets]

\* SMEMBERS key: the empty set for a missing key
RedisSMembers(r, key, sub) ==
    LET r1 == Logged(r, "SMEMBERS", {key}, sub)
    IN  IF "SMEMBERS" \in faults \/ key \in DOMAIN r.kv
        THEN [r |-> Broken(r1), err |-> RedisErr, val |-> {}]
        ELSE [r |-> r1, err |-> OK,
              val |-> IF key \in DOMAIN r.sets THEN r.sets[key] ELSE {}]

\* SADD key member
RedisSAdd(r, key, member, sub) ==
    LET r1 == Logged(r, "SADD", {key}, sub)
    IN  IF "SADD" \in faults \/ key \in DOMAIN r.kv
        THEN [r |-> Broken(r1), err |-> RedisErr]
        ELSE [r |-> [r1 EXCEPT !.sets =
                        (key :> ((IF key \in DOMAIN r.sets THEN r.sets[key] ELSE {})
                                 \cup {member})) @@ r.sets],
              err |-> OK]

\* EXPIRE key ttl: the command is logged; the expiry time it sets is kept in clock
RedisExpire(r, key, sub) ==
    LET r1 == Logged(r, "EXPIRE", {key}, sub)
    IN  IF "EXPIRE" \in faults
        THEN [r |-> Broken(r1), err |-> RedisErr]
        ELSE [r |-> r1, err |-> OK]

\* Redis glob patterns, with * as the only special character
RECURSIVE GlobMatch(_, _)
GlobMatch(pattern, s) ==
    LET star == IndexFrom(pattern, "*", 1)
        rest == SubSeq(pattern, star + 1, Len(pattern))
        tail == SubSeq(s, star, Len(s))
    IN  IF star = 0 THEN pattern = s
        ELSE /\ HasPrefix(s, SubSeq(pattern, 1, star - 1))
             /\ \/ rest = ""
                \/ \E j \in 0..Len(tail) : GlobMatch(rest, SubSeq(tail, j + 1, Len(tail)))

\* the cursor step of the keyspace walk that visits a key
ScanSlot(key) == Len(key) % ScanSlots

\* SCAN cursor MATCH pattern COUNT n: the matching keys of one step and the
\* next cursor, 0 after the last step
RedisScan(r, cursor, pattern, sub) ==
    LET r1 == Logged(r, "SCAN", {pattern}, sub)
    IN  IF "SCAN" \in faults
        THEN [r |-> Broken(r1), err |-> RedisErr, val |-> {}, cursor |-> 0]
        ELSE [r |-> r1, err |-> OK,
              val |-> {k \in DOMAIN r.kv \cup DOMAIN r.sets :
                          ScanSlot(k) = cursor /\ GlobMatch(pattern, k)},
              cursor |-> IF cursor + 1 < ScanSlots THEN cursor + 1 ELSE 0]

\* one queued command of a pipeline
PipeCmd(r, c, sub) ==
    CASE c.cmd = "SET" -> RedisSet(r, c.key, c.val, sub)
      [] c.cmd = "SADD" -> RedisSAdd(r, c.key, c.val, sub)
      [] c.cmd = "EXPIRE" -> RedisExpire(r, c.key, sub)

\* pipe.Exec: the queued commands go out in one submission; each takes effect
\* or fails on its own, and Exec returns the first error
RECURSIVE PipeRun(_, _, _, _)
PipeRun(r, cmds, sub, err) ==
    LET Sent(x) ==
            IF x.err # OK /\ err = OK THEN PipeRun(x.r, Tail(cmds), sub, x.err)
            ELSE PipeRun(x.r, Tail(cmds), sub, err)
    IN  IF cmds = <<>> THEN [r |-> r, err |-> err]
        ELSE Sent(PipeCmd(r, Head(cmds), sub))

PipeExec(r, cmds) == PipeRun(r, cmds, NextSub(r), OK)

PSet(key, val) == [cmd |-> "SET", key |-> key, val |-> val]
PSAdd(key, member) == [cmd |-> "SADD", key |-> key, val |-> member]
PExpire(key) == [cmd |-> "EXPIRE", key |-> key, val |-> ""]

(***************************************************************************)
(* pkg/redis/manager.go                                                    *)
(***************************************************************************)
cacheKeyPrefix == "sql4go"
cacheKeySeparator == ":"
cacheDependencyPrefix == "deps"
cacheMetadataSuffix == "_internal:meta"
cacheChunkPrefix == "_internal:chunk"

\* checkClient as it would be if it did not look at config.Enabled
checkClientIgnoringEnabled == OK

\* Manager.checkClient: the client is nil only when the cache is disabled
checkClient == IF cacheMode # "enabled" THEN ErrCacheDisabled ELSE OK

ErrConnectionFailed == "redis connection failed"

\* Manager.Ping: nil when the cache is disabled, else the outcome of PING
Ping(r) ==
    IF cacheMode # "enabled" THEN [r |-> r, err |-> OK]
    ELSE IF "PING" \in faults
    THEN [r |-> Broken(Logged(r, "PING", {}, NextSub(r))), err |-> ErrConnectionFailed]
    ELSE [r |-> Logged(r, "PING", {}, NextSub(r)), err |-> OK]

\* Manager.Get
Get(r, key) ==
    IF checkClient # OK THEN [r |-> r, err |-> checkClient, val |-> ""]
    ELSE LET x == RedisGet(r, key, NextSub(r))
         IN  IF x.err = RedisNil THEN [r |-> x.r, err |-> ErrKeyNotFound, val |-> ""]
             ELSE x

\* Manager.Set
Set(r, key, value) ==
    IF checkClient # OK THEN [r |-> r, err |-> checkClient]
    ELSE RedisSet(r, key, value, NextSub(r))

\* Manager.DeleteKeys
DeleteKeys(r, keys) ==
    IF checkClient # OK THEN [r |-> r, err |-> checkClient]
    ELSE IF keys = <<>> THEN [r |-> r, err |-> OK]
    ELSE RedisDel(r, {keys[i] : i \in 1..Len(keys)}, NextSub(r))

\* Manager.Exists
Exists(r, key) ==
    IF checkClient # OK THEN [r |-> r, err |-> checkClient, val |-> FALSE]
    ELSE RedisExists(r, key, NextSub(r))

\* the SCAN loop as it would be if it ended after the first batch
scanLoopFirstBatch(r, cursor, pattern) ==
    LET Scanned(s) ==
            IF s.err # OK THEN [r |-> s.r, err |-> s.err]
            ELSE IF s.val # {} THEN RedisDel(s.r, s.val, NextSub(s.r))
            ELSE [r |-> s.r, err |-> OK]
    IN  Scanned(RedisScan(r, cursor, pattern, NextSub(r)))

\* Manager.InvalidatePattern: the SCAN loop, deleting each batch as it comes
RECURSIVE scanLoop(_, _, _)
scanLoop(r, cursor, pattern) ==
    LET Deleted(s, d) ==
            IF d.err # OK THEN [r |-> d.r, err |-> d.err]
            ELSE IF s.cursor = 0 THEN [r |-> d.r, err |-> OK]
            ELSE scanLoop(d.r, s.cursor, pattern)
        Scanned(s) ==
            IF s.err # OK THEN [r |-> s.r, err |-> s.err]
            ELSE Deleted(s, IF s.val # {} THEN RedisDel(s.r, s.val, NextSub(s.r))
                            ELSE [r |-> s.r, err |-> OK])
    IN  Scanned(RedisScan(r, cursor, pattern, NextSub(r)))

InvalidatePattern(r, pattern) ==
    IF checkClient # OK THEN [r |-> r, err |-> checkClient]
    ELSE scanLoop(r, 0, pattern)

\* Manager.buildInvalidationPatterns; keyPatterns is
\* config.Invalidation.KeyPatterns, a map entityType -> patterns
buildInvalidationPatterns(keyPatterns, entityType, entityID) ==
    <<cacheKeyPrefix \o cacheKeySeparator \o entityType \o cacheKeySeparator \o "*",
      cacheKeyPrefix \o cacheKeySeparator \o entityType \o cacheKeySeparator \o "find_by_id"
          \o cacheKeySeparator \o entityID>>
        \o (IF entityType \in DOMAIN keyPatterns
            THEN [i \in DOMAIN keyPatterns[entityType] |->
                     ReplaceAll(keyPatterns[entityType][i], "{id}", entityID)]
            ELSE <<>>)

\* the loop of InvalidateRelationships: InvalidatePattern of each pattern,
\* going on after an error
RECURSIVE invalidatePatterns(_, _)
invalidatePatterns(r, patterns) ==
    LET Invalidated(x) ==
            IF x.err # OK THEN invalidatePatterns(Dropped(x.r), Tail(patterns))
            ELSE invalidatePatterns(x.r, Tail(patterns))
    IN  IF patterns = <<>> THEN r
        ELSE Invalidated(InvalidatePattern(r, Head(patterns)))

\* Manager.InvalidateRelationships
InvalidateRelationships(r, keyPatterns, entityType, entityID) ==
    IF checkClient # OK THEN [r |-> r, err |-> checkClient]
    ELSE [r |-> invalidatePatterns(r, buildInvalidationPatterns(keyPatterns, entityType,
                                                                entityID)),
          err |-> OK]

\* the key of the dependency set of an entity: sql4go:deps:<type>:<id>
dependencyKey(entityType, entityID) ==
    cacheKeyPrefix \o cacheKeySeparator \o cacheDependencyPrefix \o cacheKeySeparator
        \o entityType \o cacheKeySeparator \o entityID

chunkKey(key, i) == key \o cacheChunkPrefix \o ":" \o Itoa(i)

metadataKey(key) == key \o cacheMetadataSuffix

(***************************************************************************)
(* compress/gzip, as the manager uses it: a header, a run-length coded     *)
(* body and a trailer holding the size of the input (mod 10).  A run of 3  *)
(* to 9 equal bytes becomes ~<n><byte>; a literal ~ is written ~1~.        *)
(***************************************************************************)
RECURSIVE RunLength(_, _)
RunLength(s, n) ==
    IF n < Len(s) /\ n < 9 /\ SubSeq(s, n + 1, n + 1) = SubSeq(s, 1, 1)
    THEN RunLength(s, n + 1)
    ELSE n

RECURSIVE Deflate(_)
Deflate(s) ==
    IF s = "" THEN ""
    ELSE LET c == SubSeq(s, 1, 1)
             n == RunLength(s, 1)
         IN  (IF n >= 3 \/ c = "~" THEN "~" \o Itoa(n) \o c ELSE Repeat(c, n))
                 \o Deflate(SubSeq(s, n + 1, Len(s)))

\* [ok, out]: the bytes a run-length coded body stands for
RECURSIVE Inflate(_)
Inflate(s) ==
    IF s = "" THEN [ok |-> TRUE, out |-> ""]
    ELSE IF SubSeq(s, 1, 1) = "~"
    THEN IF Len(s) >= 3 /\ IsDigit(SubSeq(s, 2, 2)) /\ DigitVal(SubSeq(s, 2, 2)) >= 1
         THEN LET more == Inflate(SubSeq(s, 4, Len(s)))
              IN  [ok |-> more.ok,
                   out |-> Repeat(SubSeq(s, 3, 3), DigitVal(SubSeq(s, 2, 2))) \o more.out]
         ELSE [ok |-> FALSE, out |-> ""]
    ELSE LET more == Inflate(SubSeq(s, 2, Len(s)))
         IN  [ok |-> more.ok, out |-> SubSeq(s, 1, 1) \o more.out]

\* Manager.compressData (it cannot fail on an in-memory buffer)
compressData(data) == "Z" \o Deflate(data) \o Itoa(Len(data) % 10)

\* Manager.decompressData: [err, val]
decompressData(data) ==
    LET body == Inflate(SubSeq(data, 2, Len(data) - 1))
        size == SubSeq(data, Len(data), Len(data))
    IN  IF /\ Len(data) >= 2
           /\ SubSeq(data, 1, 1) = "Z"
           /\ IsDigit(size)
           /\ body.ok
           /\ Len(body.out) % 10 = DigitVal(size)
        THEN [err |-> OK, val |-> body.out]
        ELSE [err |-> ErrGzip, val |-> ""]

(***************************************************************************)
(* Large values: Manager.SetLarge, GetLarge, DeleteLarge and their helpers *)
(***************************************************************************)
\* the chunk pipeline of setChunked: SET of chunk i .. chunkCount-1
RECURSIVE chunkSets(_, _, _, _, _)
chunkSets(key, data, chunkSize, i, chunkCount) ==
    IF i >= chunkCount THEN <<>>
    ELSE LET start == i * chunkSize
             end == IF start + chunkSize > Len(data) THEN Len(data) ELSE start + chunkSize
         IN  <<PSet(chunkKey(key, i), SubSeq(data, start + 1, end))>>
                 \o chunkSets(key, data, chunkSize, i + 1, chunkCount)

\* setChunked as it would be if the number of chunks were rounded down
setChunkedRoundingDown(r, key, data, compressed, chunkSize) ==
    LET chunkCount == Len(data) \div chunkSize
        metadata == "chunked:" \o FormatBool(compressed) \o ":" \o Itoa(chunkCount)
    IN  PipeExec(r, <<PSet(metadataKey(key), metadata)>>
                        \o chunkSets(key, data, chunkSize, 0, chunkCount))

\* Manager.setChunked
setChunked(r, key, data, compressed, chunkSize) ==
    LET chunkCount == (Len(data) + chunkSize - 1) \div chunkSize
        metadata == "chunked:" \o FormatBool(compressed) \o ":" \o Itoa(chunkCount)
    IN  PipeExec(r, <<PSet(metadataKey(key), metadata)>>
                        \o chunkSets(key, data, chunkSize, 0, chunkCount))

\* the chunk loop of getChunked: [r, err, val]
RECURSIVE readChunks(_, _, _, _, _)
readChunks(r, key, i, chunkCount, acc) ==
    LET Read(c) ==
            IF c.err # OK THEN [r |-> c.r, err |-> c.err, val |-> ""]
            ELSE readChunks(c.r, key, i + 1, chunkCount, acc \o c.val)
    IN  IF i >= chunkCount THEN [r |-> r, err |-> OK, val |-> acc]
        ELSE Read(RedisGet(r, chunkKey(key, i), NextSub(r)))

\* Manager.getChunked: [r, err, val, compressed]
getChunked(r, key) ==
    LET Failed(q, err) == [r |-> q, err |-> err, val |-> "", compressed |-> FALSE]
        Joined(chunks, compressed) ==
            IF chunks.err # OK THEN Failed(chunks.r, chunks.err)
            ELSE [r |-> chunks.r, err |-> OK, val |-> chunks.val,
                  compressed |-> compressed]
        Parsed(m, parts) ==
            IF Len(parts) # 3 \/ parts[1] # "chunked" THEN Failed(m.r, ErrInvalidMeta)
            ELSE IF ~AtoiParses(parts[3]) THEN Failed(m.r, ErrInvalidMeta)
            ELSE Joined(readChunks(m.r, key, 0, AtoiSigned(parts[3]), ""), parts[2] = "true")
        Fetched(m) ==
            IF m.err = RedisNil THEN Failed(m.r, ErrKeyNotFound)
            ELSE IF m.err # OK THEN Failed(m.r, m.err)
            ELSE Parsed(m, Split(m.val, ":"))
    IN  Fetched(RedisGet(r, metadataKey(key), NextSub(r)))

\* Manager.setWithMetadata
setWithMetadata(r, key, data, compressed, chunked) ==
    IF compressed
    THEN PipeExec(r, <<PSet(metadataKey(key), "single:" \o FormatBool(compressed) \o ":1"),
                       PSet(key, data)>>)
    ELSE Set(r, key, data)

\* Manager.getWithMetadata: [r, err, val, compressed]
getWithMetadata(r, key) ==
    LET Plain(data, compressed) ==
            [r |-> data.r, err |-> data.err, val |-> data.val, compressed |-> compressed]
        Parsed(m, parts) ==
            IF Len(parts) # 3 \/ parts[1] # "single"
            THEN [r |-> m.r, err |-> ErrInvalidMeta, val |-> "", compressed |-> FALSE]
            ELSE Plain(Get(m.r, key), parts[2] = "true")
        Fetched(m) ==
            IF m.err = RedisNil THEN Plain(Get(m.r, key), FALSE)
            ELSE IF m.err # OK
            THEN [r |-> m.r, err |-> m.err, val |-> "", compressed |-> FALSE]
            ELSE Parsed(m, Split(m.val, ":"))
    IN  Fetched(RedisGet(r, metadataKey(key), NextSub(r)))

\* Manager.isChunkedValue: [r, err, val]
isChunkedValue(r, key) ==
    LET Fetched(m) ==
            IF m.err = RedisNil THEN [r |-> m.r, err |-> OK, val |-> FALSE]
            ELSE IF m.err # OK THEN [r |-> m.r, err |-> m.err, val |-> FALSE]
            ELSE [r |-> m.r, err |-> OK, val |-> HasPrefix(m.val, "chunked:")]
    IN  Fetched(RedisGet(r, metadataKey(key), NextSub(r)))

\* SetLarge as it would be if a compressed form of the same size were kept
SetLargeKeepingEqualSize(r, key, value) ==
    LET Stored(processedValue, compressed) ==
            IF largeCfg.EnableChunking /\ Len(processedValue) > ChunkSize
            THEN setChunked(r, key, processedValue, compressed, ChunkSize)
            ELSE setWithMetadata(r, key, processedValue, compressed, FALSE)
        Compressed(compressedValue) ==
            IF Len(compressedValue) <= Len(value) THEN Stored(compressedValue, TRUE)
            ELSE Stored(value, FALSE)
    IN  IF checkClient # OK THEN [r |-> r, err |-> checkClient]
        ELSE IF Len(value) > MaxValueSize THEN [r |-> r, err |-> ErrTooLarge]
        ELSE IF largeCfg.EnableCompression /\ Len(value) > CompressThreshold
        THEN Compressed(compressData(value))
        ELSE Stored(value, FALSE)

\* SetLarge as it would be if the chunking decision looked at the size of the
\* value before compression
SetLargeChunkingOnOriginal(r, key, value) ==
    LET Stored(processedValue, compressed) ==
            IF largeCfg.EnableChunking /\ Len(value) > ChunkSize
            THEN setChunked(r, key, processedValue, compressed, ChunkSize)
            ELSE setWithMetadata(r, key, processedValue, compressed, FALSE)
        Compressed(compressedValue) ==
            IF Len(compressedValue) < Len(value) THEN Stored(compressedValue, TRUE)
            ELSE Stored(value, FALSE)
    IN  IF checkClient # OK THEN [r |-> r, err |-> checkClient]
        ELSE IF Len(value) > MaxValueSize THEN [r |-> r, err |-> ErrTooLarge]
        ELSE IF largeCfg.EnableCompression /\ Len(value) > CompressThreshold
        THEN Compressed(compressData(value))
        ELSE Stored(value, FALSE)

\* SetLarge as it would be if a value of exactly the maximum size were refused
SetLargeRejectingAtCeiling(r, key, value) ==
    LET Stored(processedValue, compressed) ==
            IF largeCfg.EnableChunking /\ Len(processedValue) > ChunkSize
            THEN setChunked(r, key, processedValue, compressed, ChunkSize)
            ELSE setWithMetadata(r, key, processedValue, compressed, FALSE)
        Compressed(compressedValue) ==
            IF Len(compressedValue) < Len(value) THEN Stored(compressedValue, TRUE)
            ELSE Stored(value, FALSE)
    IN  IF checkClient # OK THEN [r |-> r, err |-> checkClient]
        ELSE IF Len(value) >= MaxValueSize THEN [r |-> r, err |-> ErrTooLarge]
        ELSE IF largeCfg.EnableCompression /\ Len(value) > CompressThreshold
        THEN Compressed(compressData(value))
        ELSE Stored(value, FALSE)

\* Manager.SetLarge
SetLarge(r, key, value) ==
    LET Stored(processedValue, compressed) ==
            IF largeCfg.EnableChunking /\ Len(processedValue) > ChunkSize
            THEN setChunked(r, key, processedValue, compressed, ChunkSize)
            ELSE setWithMetadata(r, key, processedValue, compressed, FALSE)
        Compressed(compressedValue) ==
            IF Len(compressedValue) < Len(value) THEN Stored(compressedValue, TRUE)
            ELSE Stored(value, FALSE)
    IN  IF checkClient # OK THEN [r |-> r, err |-> checkClient]
        ELSE IF Len(value) > MaxValueSize THEN [r |-> r, err |-> ErrTooLarge]
        ELSE IF largeCfg.EnableCompression /\ Len(value) > CompressThreshold
        THEN Compressed(compressData(value))
        ELSE Stored(value, FALSE)

\* Manager.GetLarge: [r, err, val]
GetLarge(r, key) ==
    LET Decompressed(d, z) == [r |-> d.r, err |-> z.err, val |-> z.val]
        Read(d) ==
            IF d.err # OK THEN [r |-> d.r, err |-> d.err, val |-> ""]
            ELSE IF d.compressed THEN Decompressed(d, decompressData(d.val))
            ELSE [r |-> d.r, err |-> OK, val |-> d.val]
        Checked(c) ==
            IF c.err # OK THEN [r |-> c.r, err |-> c.err, val |-> ""]
            ELSE IF c.val THEN Read(getChunked(c.r, key))
            ELSE Read(getWithMetadata(c.r, key))
    IN  IF checkClient # OK THEN [r |-> r, err |-> checkClient, val |-> ""]
        ELSE Checked(isChunkedValue(r, key))

\* DeleteLarge as it would be if the chunk keys were left out of the delete
DeleteLargeWithoutChunks(r, key) ==
    LET Chunked(m) == DeleteKeys(m.r, <<key, metadataKey(key)>>)
        Single(e) ==
            DeleteKeys(Swallowed(e), IF e.val THEN <<key, metadataKey(key)>> ELSE <<key>>)
        Checked(c) ==
            IF c.err # OK THEN [r |-> c.r, err |-> c.err]
            ELSE IF c.val THEN Chunked(RedisGet(c.r, metadataKey(key), NextSub(c.r)))
            ELSE Single(Exists(c.r, metadataKey(key)))
    IN  IF checkClient # OK THEN [r |-> r, err |-> checkClient]
        ELSE Checked(isChunkedValue(r, key))

\* Manager.DeleteLarge
DeleteLarge(r, key) ==
    LET chunkKeys(parts) ==
            IF Len(parts) = 3 /\ AtoiParses(parts[3])
            THEN [i \in 1..AtoiSigned(parts[3]) |-> chunkKey(key, i - 1)]
            ELSE <<>>
        Chunked(m) ==
            DeleteKeys(m.r, <<key>>
                            \o (IF m.err = OK THEN chunkKeys(Split(m.val, ":")) ELSE <<>>)
                            \o <<metadataKey(key)>>)
        Single(e) ==
            DeleteKeys(Swallowed(e), IF e.val THEN <<key, metadataKey(key)>> ELSE <<key>>)
        Checked(c) ==
            IF c.err # OK THEN [r |-> c.r, err |-> c.err]
            ELSE IF c.val THEN Chunked(RedisGet(c.r, metadataKey(key), NextSub(c.r)))
            ELSE Single(Exists(c.r, metadataKey(key)))
    IN  IF checkClient # OK THEN [r |-> r, err |-> checkClient]
        ELSE Checked(isChunkedValue(r, key))

(***************************************************************************)
(* Dependency sets                                                         *)
(***************************************************************************)
\* the SADD and EXPIRE of each (entityType, entityID) of a dependency list
RECURSIVE dependencyCmds(_, _)
dependencyCmds(dependencies, cacheKey) ==
    IF dependencies = <<>> THEN <<>>
    ELSE LET dk == dependencyKey(Head(dependencies)[1], Head(dependencies)[2])
         IN  <<PSAdd(dk, cacheKey), PExpire(dk)>>
                 \o dependencyCmds(Tail(dependencies), cacheKey)

\* Manager.AddMultipleDependencies; dependencies is the map entityType -> ids,
\* flattened to a sequence of <<entityType, id>>
AddMultipleDependencies(r, dependencies, cacheKey) ==
    IF checkClient # OK THEN [r |-> r, err |-> checkClient]
    ELSE IF dependencies = <<>> THEN [r |-> r, err |-> OK]
    ELSE PipeExec(r, dependencyCmds(dependencies, cacheKey))

\* Manager.SetLargeWithDependencies
SetLargeWithDependencies(r, cacheKey, value, dependencies) ==
    LET Stored(s) ==
            IF s.err # OK THEN s
            ELSE AddMultipleDependencies(s.r, dependencies, cacheKey)
    IN  Stored(SetLarge(r, cacheKey, value))

\* the loop of InvalidateEntityDependencies: DeleteLarge of every dependent
\* key, going on after an error
RECURSIVE deleteDependents(_, _)
deleteDependents(r, dependentKeys) ==
    LET k == CHOOSE x \in dependentKeys : TRUE
        Deleted(d) ==
            IF d.err # OK THEN deleteDependents(Dropped(d.r), dependentKeys \ {k})
            ELSE deleteDependents(d.r, dependentKeys \ {k})
    IN  IF dependentKeys = {} THEN r
        ELSE Deleted(DeleteLarge(r, k))

\* InvalidateEntityDependencies reporting a missing set as an error
InvalidateFailingOnEmpty(r, entityType, entityID) ==
    LET dk == dependencyKey(entityType, entityID)
        Deleted(d) == [r |-> Swallowed(RedisDel(d, {dk}, NextSub(d))), err |-> OK]
        Members(m) ==
            IF m.err # OK THEN [r |-> m.r, err |-> m.err]
            ELSE IF m.val = {} THEN [r |-> m.r, err |-> ErrKeyNotFound]
            ELSE Deleted(deleteDependents(m.r, m.val))
    IN  IF checkClient # OK THEN [r |-> r, err |-> checkClient]
        ELSE Members(RedisSMembers(r, dk, NextSub(r)))

\* InvalidateEntityDependencies removing the dependency sets of the whole
\* collection
InvalidateWholeCollection(r, entityType, entityID) ==
    LET dk == dependencyKey(entityType, entityID)
        all(d) == {k \in DOMAIN d.sets : HasPrefix(k, dependencyKey(entityType, ""))}
        Deleted(d) == [r |-> Swallowed(RedisDel(d, all(d), NextSub(d))), err |-> OK]
        Members(m) ==
            IF m.err # OK THEN [r |-> m.r, err |-> m.err]
            ELSE IF m.val = {} THEN [r |-> m.r, err |-> OK]
            ELSE Deleted(deleteDependents(m.r, m.val))
    IN  IF checkClient # OK THEN [r |-> r, err |-> checkClient]
        ELSE Members(RedisSMembers(r, dk, NextSub(r)))

\* Manager.InvalidateEntityDependencies
InvalidateEntityDependencies(r, entityType, entityID) ==
    LET dk == dependencyKey(entityType, entityID)
        Deleted(d) == [r |-> Swallowed(RedisDel(d, {dk}, NextSub(d))), err |-> OK]
        Members(m) ==
            IF m.err # OK THEN [r |-> m.r, err |-> m.err]
            ELSE IF m.val = {} THEN [r |-> m.r, err |-> OK]
            ELSE Deleted(deleteDependents(m.r, m.val))
    IN  IF checkClient # OK THEN [r |-> r, err |-> checkClient]
        ELSE Members(RedisSMembers(r, dk, NextSub(r)))

\* Manager.AddDependency: an error of the EXPIRE is recorded, not returned
AddDependency(r, entityType, entityID, cacheKey) ==
    LET dk == dependencyKey(entityType, entityID)
        Added(a) ==
            IF a.err # OK THEN [r |-> a.r, err |-> a.err]
            ELSE [r |-> Swallowed(RedisExpire(a.r, dk, NextSub(a.r))), err |-> OK]
    IN  IF checkClient # OK THEN [r |-> r, err |-> checkClient]
        ELSE Added(RedisSAdd(r, dk, cacheKey, NextSub(r)))

\* Manager.SetWithDependencies: the value and its links go out in one pipeline
SetWithDependencies(r, cacheKey, value, dependencies) ==
    IF checkClient # OK THEN [r |-> r, err |-> checkClient]
    ELSE PipeExec(r, <<PSet(cacheKey, value)>> \o dependencyCmds(dependencies, cacheKey))

\* Manager.GetDependencies: [r, err, val]
GetDependencies(r, entityType, entityID) ==
    LET Members(m) ==
            IF m.err = RedisNil THEN [r |-> m.r, err |-> OK, val |-> {}]
            ELSE [r |-> m.r, err |-> m.err, val |-> m.val]
    IN  IF checkClient # OK THEN [r |-> r, err |-> checkClient, val |-> {}]
        ELSE Members(RedisSMembers(r, dependencyKey(entityType, entityID), NextSub(r)))

(***************************************************************************)
(* The entities of the model: the User and Order structs of the README.    *)
(*   type User  struct { ID uint `gorm:"primaryKey"`; Name string;         *)
(*                       Orders []Order `gorm:"foreignKey:UserID"` }       *)
(*   type Order struct { ID uint `gorm:"primaryKey"`;                      *)
(*                       UserID uint `gorm:"index;not null"`;              *)
(*                       User User `gorm:"<tagStyle>"` }                   *)
(* A row is a record of the data fields: [ID, Name] or [ID, UserID].       *)
(***************************************************************************)
Tables == {"users", "orders"}

\* users have the primary keys 1..MaxUserId, the one order has the key OrderId
MaxUserId == 1
OrderId == 7
Names == {"A", "B"}

Ids(t) == IF t = "users" THEN 1..MaxUserId ELSE {OrderId}

\* the rows a caller may hand to Create and Update
Entities(t) ==
    IF t = "users" THEN [ID : Ids(t), Name : Names]
    ELSE [ID : Ids(t), UserID : 0..MaxUserId]

\* a nil interface{} value
Nil == -1

\* fmt's %v of an identifier
FmtV(v) == IF v = Nil THEN "<nil>" ELSE Itoa(v)

\* reflect.StructField: Name, Kind of the type, the struct the type refers to,
\* the gorm tag, and the column name GORM derives
Field(name, kind, elem, tag, column) ==
    [Name |-> name, Kind |-> kind, Elem |-> elem, Tag |-> tag, Column |-> column]

StructFields(t) ==
    IF t = "users"
    THEN <<Field("ID", "uint", "", "primaryKey", "id"),
           Field("Name", "string", "", "", "name"),
           Field("Orders", "slice", "Order", "foreignKey:UserID", "")>>
    ELSE <<Field("ID", "uint", "", "primaryKey", "id"),
           Field("UserID", "uint", "", "index;not null", "user_id"),
           Field("User", "struct", "User", tagStyle, "")>>

\* the fields that are columns of the table
DataFields(t) == SelectSeq(StructFields(t), LAMBDA f : f.Kind \in {"uint", "string"})

\* Entity.GetPrimaryKeyValue, as the README's entities implement it
GetPrimaryKeyValue(entity) == entity.ID

UpperCase == "ABCDEFGHIJKLMNOPQRSTUVWXYZ"
LowerCase == "abcdefghijklmnopqrstuvwxyz"

\* strings.ToLower
RECURSIVE ToLower(_)
ToLower(s) ==
    IF s = "" THEN ""
    ELSE LET c == SubSeq(s, 1, 1)
             i == IndexFrom(UpperCase, c, 1)
         IN  (IF i = 0 THEN c ELSE SubSeq(LowerCase, i, i)) \o ToLower(SubSeq(s, 2, Len(s)))

\* strings.EqualFold
EqualFold(a, b) == ToLower(a) = ToLower(b)

isVowel(b) == b \in {"a", "e", "i", "o", "u"}

convertStructNameToTableName(structName) ==
    LET Plural(tableName) ==
            IF /\ HasSuffix(tableName, "y")
               /\ ~isVowel(SubSeq(tableName, Len(tableName) - 1, Len(tableName) - 1))
            THEN TrimSuffix(tableName, "y") \o "ies"
            ELSE IF \/ HasSuffix(tableName, "s") \/ HasSuffix(tableName, "x")
                    \/ HasSuffix(tableName, "z") \/ HasSuffix(tableName, "ch")
                    \/ HasSuffix(tableName, "sh")
            THEN tableName \o "es"
            ELSE tableName \o "s"
    IN  Plural(ToLower(structName))

hasCorrespondingForeignKey(fieldName) ==
    HasSuffix(fieldName, "ID") \/ Contains(ToLower(fieldName), "id")

\* the first part of the tag that starts with foreignKey:, "" when there is none
RECURSIVE foreignKeyPart(_)
foreignKeyPart(parts) ==
    IF parts = <<>> THEN ""
    ELSE IF HasPrefix(Head(parts), "foreignKey:") THEN TrimPrefix(Head(parts), "foreignKey:")
    ELSE foreignKeyPart(Tail(parts))

extractForeignKeyFromTag(gormTag) == foreignKeyPart(Split(gormTag, ";"))

\* parseGORMRelationship: [relationType, targetEntity]
parseGORMRelationship(field, gormTag) ==
    LET Parsed(target) ==
            IF Contains(gormTag, "foreignKey:")
            THEN [relationType |-> IF field.Kind = "slice" THEN "has_many" ELSE "has_one",
                  targetEntity |-> target]
            ELSE IF Contains(gormTag, "references:")
            THEN [relationType |-> "belongs_to", targetEntity |-> target]
            ELSE IF field.Kind = "slice" /\ field.Elem # ""
            THEN [relationType |-> "has_many", targetEntity |-> target]
            ELSE IF field.Kind = "struct"
            THEN [relationType |-> IF hasCorrespondingForeignKey(field.Name)
                                   THEN "belongs_to" ELSE "has_one",
                  targetEntity |-> target]
            ELSE [relationType |-> "", targetEntity |-> ""]
    IN  Parsed(IF field.Elem # "" THEN convertStructNameToTableName(field.Elem) ELSE "")

\* the value of the field named like foreignKey (case-insensitive), Nil when
\* there is no such field or it holds the zero value
RECURSIVE foreignKeyValue(_, _, _)
foreignKeyValue(fields, entity, foreignKey) ==
    IF fields = <<>> THEN Nil
    ELSE IF EqualFold(Head(fields).Name, foreignKey)
    THEN IF /\ Head(fields).Name \in DOMAIN entity
            /\ entity[Head(fields).Name] # (IF Head(fields).Kind = "string" THEN "" ELSE 0)
         THEN entity[Head(fields).Name]
         ELSE Nil
    ELSE foreignKeyValue(Tail(fields), entity, foreignKey)

\* the field loop of extractRelationshipsFromEntityWithDepth: the related
\* entities [relationType, EntityType, EntityID] in field order
RECURSIVE relationshipsOfFields(_, _, _, _)
relationshipsOfFields(fields, all, entity, entityID) ==
    LET field == Head(fields)
        Listed(rel, relatedEntityID, more) ==
            IF field.Tag = "" \/ rel.relationType = "" \/ rel.targetEntity = ""
            THEN more
            ELSE <<[relationType |-> rel.relationType,
                    EntityType |-> rel.targetEntity,
                    EntityID |-> relatedEntityID]>> \o more
        Keyed(rel, tagKey) ==
            Listed(rel,
                   IF rel.relationType = "belongs_to"
                   THEN foreignKeyValue(all, entity,
                                        IF tagKey = "" THEN field.Name \o "ID" ELSE tagKey)
                   ELSE entityID,
                   relationshipsOfFields(Tail(fields), all, entity, entityID))
    IN  IF fields = <<>> THEN <<>>
        ELSE Keyed(parseGORMRelationship(field, field.Tag),
                   extractForeignKeyFromTag(field.Tag))

extractRelationshipsFromEntityWithDepth(t, entity, entityID, currentDepth, maxDepth) ==
    IF currentDepth >= maxDepth THEN <<>>
    ELSE relationshipsOfFields(StructFields(t), StructFields(t), entity, entityID)

extractRelationshipsFromEntity(t, entity, entityID) ==
    extractRelationshipsFromEntityWithDepth(t, entity, entityID, 0, 3)

(***************************************************************************)
(* encoding/json, as far as the repository uses it.  An entity is written  *)
(* {<field>,<field>} with its data fields in order, a list [<e>,<e>], an   *)
(* integer in decimal, a string argument in quotes.                        *)
(***************************************************************************)
jsonField(kind, v) == IF kind = "uint" THEN Itoa(v) ELSE v

RECURSIVE jsonFields(_, _)
jsonFields(fields, entity) ==
    IF fields = <<>> THEN ""
    ELSE jsonField(Head(fields).Kind, entity[Head(fields).Name])
            \o (IF Len(fields) > 1 THEN "," ELSE "")
            \o jsonFields(Tail(fields), entity)

marshalEntity(t, entity) == "{" \o jsonFields(DataFields(t), entity) \o "}"

RECURSIVE marshalList(_, _)
marshalList(t, entities) ==
    IF entities = <<>> THEN ""
    ELSE marshalEntity(t, Head(entities))
            \o (IF Len(entities) > 1 THEN "," ELSE "")
            \o marshalList(t, Tail(entities))

\* GenericRepository.marshalEntities
marshalEntities(t, entities) == "[" \o marshalList(t, entities) \o "]"

\* whether texts are the field values of an entity of table t
fieldsParse(t, texts) ==
    /\ Len(texts) = Len(DataFields(t))
    /\ \A i \in 1..Len(texts) : DataFields(t)[i].Kind = "uint" => IsNumber(texts[i])

entityOfTexts(t, texts) ==
    LET fields == DataFields(t)
        Value(i) == IF fields[i].Kind = "uint" THEN Atoi(texts[i]) ELSE texts[i]
    IN  [n \in {fields[i].Name : i \in 1..Len(texts)} |->
            Value(CHOOSE j \in 1..Len(texts) : fields[j].Name = n)]

\* json.Unmarshal(data, &entity): [err, val]
unmarshalEntity(t, data) ==
    LET Parsed(texts) ==
            IF /\ Len(data) >= 2
               /\ SubSeq(data, 1, 1) = "{"
               /\ SubSeq(data, Len(data), Len(data)) = "}"
               /\ fieldsParse(t, texts)
            THEN [err |-> OK, val |-> entityOfTexts(t, texts)]
            ELSE [err |-> ErrJSON, val |-> <<>>]
    IN  Parsed(Split(SubSeq(data, 2, Len(data) - 1), ","))

\* json.Unmarshal(data, &entities): [err, val]
unmarshalEntities(t, data) ==
    LET inner == SubSeq(data, 2, Len(data) - 1)
        Listed(parsed) ==
            IF /\ Len(data) >= 2
               /\ SubSeq(data, 1, 1) = "["
               /\ SubSeq(data, Len(data), Len(data)) = "]"
               /\ inner # "" => /\ SubSeq(inner, 1, 1) = "{"
                                /\ SubSeq(inner, Len(inner), Len(inner)) = "}"
               /\ \A i \in 1..Len(parsed) : parsed[i].err = OK
            THEN [err |-> OK, val |-> [i \in 1..Len(parsed) |-> parsed[i].val]]
            ELSE [err |-> ErrJSON, val |-> <<>>]
        Items(items) ==
            Listed([i \in 1..Len(items) |-> unmarshalEntity(t, "{" \o items[i] \o "}")])
    IN  Items(IF inner = "" THEN <<>> ELSE Split(SubSeq(inner, 2, Len(inner) - 1), "},{"))

\* json.Unmarshal(data, &count): [err, val]
unmarshalInt(data) ==
    IF IsNumber(data) THEN [err |-> OK, val |-> Atoi(data)]
    ELSE [err |-> ErrJSON, val |-> 0]

(***************************************************************************)
(* Cache keys: GenericRepository.generateCacheKey and                      *)
(* generateCacheKeyFromQuery                                               *)
(***************************************************************************)
cacheKeyHashLength == 12

\* the name extractDatabaseName reads from the connection
dbName == "shop"

generateCacheKey(t, operation, suffix) ==
    IF suffix = ""
    THEN cacheKeyPrefix \o cacheKeySeparator \o dbName \o cacheKeySeparator \o t
            \o cacheKeySeparator \o operation
    ELSE cacheKeyPrefix \o cacheKeySeparator \o dbName \o cacheKeySeparator \o t
            \o cacheKeySeparator \o operation \o cacheKeySeparator \o suffix

\* A query of FindWhere and First.  kind "string": the condition
\* "<column> = ?" with one argument; kind "gormDB": a *gorm.DB handle that
\* carries the same condition, with no arguments.
columnOf(t, fieldName) ==
    LET i == CHOOSE j \in 1..Len(DataFields(t)) : DataFields(t)[j].Name = fieldName
    IN  DataFields(t)[i].Column

kindOf(t, fieldName) ==
    LET i == CHOOSE j \in 1..Len(DataFields(t)) : DataFields(t)[j].Name = fieldName
    IN  DataFields(t)[i].Kind

queryText(t, query) == columnOf(t, query.field) \o " = ?"

\* json.Marshal(args) of the variadic arguments: null when there are none
marshalArgs(t, query) ==
    IF query.kind \in {"gormDB", "map"} THEN "null"
    ELSE "[" \o (IF kindOf(t, query.field) = "uint" THEN Itoa(query.arg)
                 ELSE "\"" \o query.arg \o "\"") \o "]"

\* A query of kind "map" is a map[string]interface{} of columns to values:
\* entries is the map, and order the sequence in which this run of the
\* program iterates over its keys (Go leaves the order of a map's keys open).
\* json.Marshal of a map (interface.go, generateCacheKeyFromQuery) collects
\* the keys as the iteration yields them, sorts them as strings and encodes
\* the entries in that order.
ByteOrder == "0123456789ABCDEFGHIJKLMNOPQRSTUVWXYZ_abcdefghijklmnopqrstuvwxyz"

\* a < b as Go compares strings, byte by byte
RECURSIVE stringLess(_, _)
stringLess(a, b) ==
    IF b = "" THEN FALSE
    ELSE IF a = "" THEN TRUE
    ELSE IF Head(a) # Head(b)
    THEN IndexFrom(ByteOrder, SubSeq(a, 1, 1), 1) < IndexFrom(ByteOrder, SubSeq(b, 1, 1), 1)
    ELSE stringLess(Tail(a), Tail(b))

\* the strings of ks, ascending
RECURSIVE sortedStrings(_)
sortedStrings(ks) ==
    IF ks = <<>> THEN <<>>
    ELSE LET least == CHOOSE i \in DOMAIN ks : \A j \in DOMAIN ks : ~stringLess(ks[j], ks[i])
         IN  <<ks[least]>>
                 \o sortedStrings([i \in 1..(Len(ks) - 1) |-> IF i < least THEN ks[i] ELSE ks[i + 1]])

\* the encoding of one value of the map: a number bare, a string quoted
jsonValueOf(t, column, v) ==
    LET i == CHOOSE j \in 1..Len(DataFields(t)) : DataFields(t)[j].Column = column
    IN  IF DataFields(t)[i].Kind = "uint" THEN Itoa(v) ELSE "\"" \o v \o "\""

RECURSIVE jsonEntries(_, _, _)
jsonEntries(t, entries, ks) ==
    IF ks = <<>> THEN ""
    ELSE "\"" \o Head(ks) \o "\":" \o jsonValueOf(t, Head(ks), entries[Head(ks)])
             \o (IF Len(ks) > 1 THEN "," ELSE "") \o jsonEntries(t, entries, Tail(ks))

\* json.Marshal of the map as it would be if the keys were encoded as the
\* iteration yields them
marshalMapAsIterated(t, entries, order) == "{" \o jsonEntries(t, entries, order) \o "}"

marshalMap(t, entries, order) == "{" \o jsonEntries(t, entries, sortedStrings(order)) \o "}"

\* xxhash.Sum64String followed by %016x: a 64-bit non-cryptographic hash.
\* The model computes a 24-bit checksum in the manner of Adler-32 (the sum of
\* the character codes and the sum of the codes weighted by position, 12 bits
\* each) and places it in the leading six hex digits.  A character not in
\* HashAlphabet has the code 1.
HashAlphabet == " =?:,_[]0123456789ABCDEFGHIJKLMNOPQRSTUVWXYZabcdefghijklmnopqrstuvwxyz"
HexDigits == "0123456789abcdef"

charCode(c) == IndexFrom(HashAlphabet, c, 1) + 1

checksum(s) ==
    LET n == Len(s)
        plain == BagCardinality([i \in 1..n |-> charCode(SubSeq(s, i, i))])
        weighted == BagCardinality([i \in 1..n |-> (n - i + 1) * charCode(SubSeq(s, i, i))])
    IN  ((1 + plain) % 4096) * 4096 + ((n + weighted) % 4096)

hexDigit(n, k) ==
    LET Digit(d) == SubSeq(HexDigits, d + 1, d + 1)
    IN  Digit((n \div (16 ^ k)) % 16)

Sum64Hex(s) ==
    LET Hex(h) ==
            hexDigit(h, 5) \o hexDigit(h, 4) \o hexDigit(h, 3) \o hexDigit(h, 2)
                \o hexDigit(h, 1) \o hexDigit(h, 0) \o "0000000000"
    IN  Hex(checksum(s))

generateCacheKeyFromQuery(t, operation, query) ==
    LET queryStr == IF query.kind = "string" THEN queryText(t, query)
                    ELSE IF query.kind = "map" THEN marshalMap(t, query.entries, query.order)
                    ELSE "UNCACHEABLE_GORM_DB"
        Keyed(hashStr) ==
            cacheKeyPrefix \o cacheKeySeparator \o dbName \o cacheKeySeparator \o t
                \o cacheKeySeparator \o operation \o cacheKeySeparator
                \o SubSeq(hashStr, 1, cacheKeyHashLength)
    IN  Keyed(Sum64Hex(queryStr \o cacheKeySeparator \o marshalArgs(t, query)))

(***************************************************************************)
(* The relational store behind GORM.  db[t] maps the primary keys present  *)
(* to their rows.  A statement fails when the caller's input dbFail names  *)
(* it (a connection or SQL error), and an INSERT of an existing key fails. *)
(***************************************************************************)
DbLogged(r, cmd, t) ==
    [r EXCEPT !.tr = Append(@, [sys |-> "db", cmd |-> cmd, keys |-> {t}, sub |-> NextSub(r)])]

RECURSIVE ascending(_)
ascending(S) ==
    IF S = {} THEN <<>>
    ELSE LET m == CHOOSE x \in S : \A y \in S : x <= y
         IN  <<m>> \o ascending(S \ {m})

\* the rows of a table in primary-key order
allRows(store, t) == [i \in 1..Cardinality(DOMAIN store[t]) |->
                        store[t][ascending(DOMAIN store[t])[i]]]

matches(query, row) == row[query.field] = query.arg

\* SELECT ... WHERE <query>
rowsWhere(store, t, query) == SelectSeq(allRows(store, t), LAMBDA row : matches(query, row))

inserted(store, t, entity) == [store EXCEPT ![t] = (entity.ID :> entity) @@ @]

RECURSIVE insertedAll(_, _, _)
insertedAll(store, t, entities) ==
    IF entities = <<>> THEN store
    ELSE insertedAll(inserted(store, t, Head(entities)), t, Tail(entities))

removed(store, t, id) == [store EXCEPT ![t] = Without(@, {id})]

\* the INSERT of these rows hits a key that exists or repeats
duplicateKey(store, t, entities) ==
    \/ \E i \in 1..Len(entities) : entities[i].ID \in DOMAIN store[t]
    \/ \E i, j \in 1..Len(entities) : i # j /\ entities[i].ID = entities[j].ID

(***************************************************************************)
(* The generic cache helpers the repository calls on the manager           *)
(* (GetValue, SetValue, GetLargeValue, SetLargeValue): JSON over Get/Set   *)
(* and over GetLarge/SetLarge.                                             *)
(***************************************************************************)
\* the decoder of a target type: "entity", "entities" or "int"
unmarshal(t, target, data) ==
    CASE target = "entity" -> unmarshalEntity(t, data)
      [] target = "entities" -> unmarshalEntities(t, data)
      [] target = "int" -> unmarshalInt(data)

\* [r, err, val]
GetValue(r, t, key, target) ==
    LET Decoded(g, u) ==
            IF g.err # OK THEN [r |-> g.r, err |-> g.err, val |-> <<>>]
            ELSE [r |-> g.r, err |-> u.err, val |-> u.val]
        Got(g) == Decoded(g, unmarshal(t, target, g.val))
    IN  Got(Get(r, key))

SetValue(r, key, data) == Set(r, key, data)

GetLargeValue(r, t, key, target) ==
    LET Decoded(g, u) ==
            IF g.err # OK THEN [r |-> g.r, err |-> g.err, val |-> <<>>]
            ELSE [r |-> g.r, err |-> u.err, val |-> u.val]
        Got(g) == Decoded(g, unmarshal(t, target, g.val))
    IN  Got(GetLarge(r, key))

SetLargeValue(r, key, data) == SetLarge(r, key, data)

(***************************************************************************)
(* pkg/repository/interface.go: GenericRepository                          *)
(***************************************************************************)
DbError == "database error"
DbFindError == "database error while finding entity to delete"
BatchCreateError == "batch create error"
BatchUpdateError == "batch update error"

\* r.redis != nil
hasRedis == cacheMode # "nil"

\* what a repository call hands back, with the backend record it leaves
Out(r, rows, n, hit, stored, err) ==
    [r |-> r, rows |-> rows, n |-> n, hit |-> hit, stored |-> stored, err |-> err]

\* InvalidateCache as it would be with the pattern of the namespace lacking
\* its wildcard
InvalidateCacheExactKey(r, t) ==
    IF ~hasRedis THEN [r |-> r, err |-> OK]
    ELSE InvalidatePattern(r, "sql4go:" \o dbName \o ":" \o t)

\* InvalidateCache as it would be with a pattern that names the database only
InvalidateCacheOfDatabase(r, t) ==
    IF ~hasRedis THEN [r |-> r, err |-> OK]
    ELSE InvalidatePattern(r, "sql4go:" \o dbName \o ":*")

\* GenericRepository.InvalidateCache
InvalidateCache(r, t) ==
    IF ~hasRedis THEN [r |-> r, err |-> OK]
    ELSE InvalidatePattern(r, "sql4go:" \o dbName \o ":" \o t \o ":*")

\* the relationships of an entity: what GetRelationships returns when the
\* entity implements RelationshipAware (the record then carries them in the
\* field Relationships), and what the GORM tags say otherwise; the User and
\* Order structs do not implement it
relationshipsOf(t, entity) ==
    IF "Relationships" \in DOMAIN entity THEN entity.Relationships
    ELSE extractRelationshipsFromEntity(t, entity, GetPrimaryKeyValue(entity))

\* the dependency entries of the related entities with a non-nil id
RECURSIVE relatedDependencies(_)
relatedDependencies(related) ==
    IF related = <<>> THEN <<>>
    ELSE (IF Head(related).EntityID # Nil
          THEN <<<<Head(related).EntityType, FmtV(Head(related).EntityID)>>>>
          ELSE <<>>) \o relatedDependencies(Tail(related))

\* extractDependenciesFromEntities as it would be if it listed the entities
\* themselves and left out the entities they are related to
RECURSIVE extractOwnDependencies(_, _)
extractOwnDependencies(t, entities) ==
    IF entities = <<>> THEN <<>>
    ELSE <<<<t, FmtV(GetPrimaryKeyValue(Head(entities)))>>>>
            \o extractOwnDependencies(t, Tail(entities))

\* GenericRepository.extractDependenciesFromEntities, as a sequence of
\* <<entityType, id>>
RECURSIVE extractDependenciesFromEntities(_, _)
extractDependenciesFromEntities(t, entities) ==
    IF entities = <<>> THEN <<>>
    ELSE <<<<t, FmtV(GetPrimaryKeyValue(Head(entities)))>>>>
            \o relatedDependencies(relationshipsOf(t, Head(entities)))
            \o extractDependenciesFromEntities(t, Tail(entities))

\* the loop over the related entities as it would be if it ended at the
\* first error
RECURSIVE invalidateRelatedStoppingAtError(_, _)
invalidateRelatedStoppingAtError(r, related) ==
    LET Invalidated(x) ==
            IF x.err # OK THEN Dropped(x.r)
            ELSE invalidateRelatedStoppingAtError(x.r, Tail(related))
    IN  IF related = <<>> THEN r
        ELSE IF Head(related).EntityID = Nil
        THEN invalidateRelatedStoppingAtError(r, Tail(related))
        ELSE Invalidated(InvalidateEntityDependencies(r, Head(related).EntityType,
                                                      FmtV(Head(related).EntityID)))

\* the loop of invalidateEntityCaches over the related entities
RECURSIVE invalidateRelated(_, _)
invalidateRelated(r, related) ==
    LET Invalidated(x) ==
            IF x.err # OK THEN invalidateRelated(Dropped(x.r), Tail(related))
            ELSE invalidateRelated(x.r, Tail(related))
    IN  IF related = <<>> THEN r
        ELSE IF Head(related).EntityID = Nil THEN invalidateRelated(r, Tail(related))
        ELSE Invalidated(InvalidateEntityDependencies(r, Head(related).EntityType,
                                                      FmtV(Head(related).EntityID)))

\* GenericRepository.invalidateEntityCaches: the backend record it leaves
invalidateEntityCaches(r, t, entity) ==
    LET id == FmtV(GetPrimaryKeyValue(entity))
        Related(q) == invalidateRelated(q, relationshipsOf(t, entity))
        Deps(d) == IF d.err # OK THEN Related(Dropped(d.r)) ELSE Related(d.r)
        Entity(q) == Deps(InvalidateEntityDependencies(q, t, id))
        Own(o) == IF o.err # OK THEN Entity(Dropped(o.r)) ELSE Entity(o.r)
    IN  Own(InvalidateCache(r, t))

RECURSIVE invalidateEach(_, _, _)
invalidateEach(r, t, entities) ==
    IF entities = <<>> THEN r
    ELSE invalidateEach(invalidateEntityCaches(r, t, Head(entities)), t, Tail(entities))

\* FindByID as it would be if it cached the absence of a row
FindByIDCachingAbsent(r, t, id, dbFail) ==
    LET cacheKey == generateCacheKey(t, "find_by_id", FmtV(id))
        Stored(entity, s) == Out(Swallowed(s), entity, 0, FALSE, s.err = OK, OK)
        Queried(q) ==
            IF dbFail = 1 THEN Out(q, <<>>, 0, FALSE, FALSE, DbError)
            ELSE IF id \notin DOMAIN db[t] THEN Stored(<<>>, SetValue(q, cacheKey, "null"))
            ELSE Stored(<<db[t][id]>>, SetValue(q, cacheKey, marshalEntity(t, db[t][id])))
        Looked(g) ==
            IF g.err = OK THEN Out(g.r, <<g.val>>, 0, TRUE, FALSE, OK)
            ELSE Queried(DbLogged(g.r, "First", t))
    IN  Looked(GetValue(r, t, cacheKey, "entity"))

\* GenericRepository.FindByID
FindByID(r, t, id, dbFail) ==
    LET cacheKey == generateCacheKey(t, "find_by_id", FmtV(id))
        Stored(entity, s) == Out(Swallowed(s), <<entity>>, 0, FALSE, s.err = OK, OK)
        Queried(q) ==
            IF dbFail = 1 THEN Out(q, <<>>, 0, FALSE, FALSE, DbError)
            ELSE IF id \notin DOMAIN db[t] THEN Out(q, <<>>, 0, FALSE, FALSE, OK)
            ELSE IF hasRedis
            THEN Stored(db[t][id], SetValue(q, cacheKey, marshalEntity(t, db[t][id])))
            ELSE Out(q, <<db[t][id]>>, 0, FALSE, FALSE, OK)
        Looked(g) ==
            IF g.err = OK THEN Out(g.r, <<g.val>>, 0, TRUE, FALSE, OK)
            ELSE IF ~IsKeyNotFound(g.err) THEN Queried(DbLogged(Dropped(g.r), "First", t))
            ELSE Queried(DbLogged(g.r, "First", t))
    IN  IF hasRedis THEN Looked(GetValue(r, t, cacheKey, "entity"))
        ELSE Queried(DbLogged(r, "First", t))

\* the store step of FindByID as it would be if it read the store again: what
\* is cached is the entity the store holds now
findByIDStoreCurrent(r, t, id, entity) ==
    SetValue(r, generateCacheKey(t, "find_by_id", FmtV(id)),
             marshalEntity(t, IF id \in DOMAIN db[t] THEN db[t][id] ELSE entity))

\* the steps of FindByID, one at a time: the cache lookup,
findByIDLookup(r, t, id) ==
    GetValue(r, t, generateCacheKey(t, "find_by_id", FmtV(id)), "entity")

\* and the store of the entity the query found
findByIDStore(r, t, id, entity) ==
    SetValue(r, generateCacheKey(t, "find_by_id", FmtV(id)), marshalEntity(t, entity))

\* GenericRepository.FindAll
FindAll(r, t, dbFail) ==
    LET cacheKey == generateCacheKey(t, "find_all", "")
        Stored(entities, s) == Out(Swallowed(s), entities, 0, FALSE, s.err = OK, OK)
        Found(q, entities) ==
            IF hasRedis
            THEN Stored(entities, SetLargeValue(q, cacheKey, marshalEntities(t, entities)))
            ELSE Out(q, entities, 0, FALSE, FALSE, OK)
        Queried(q) ==
            IF dbFail = 1 THEN Out(q, <<>>, 0, FALSE, FALSE, DbError)
            ELSE Found(q, allRows(db, t))
        Looked(g) ==
            IF g.err = OK THEN Out(g.r, g.val, 0, TRUE, FALSE, OK)
            ELSE IF ~IsKeyNotFound(g.err) THEN Queried(DbLogged(Dropped(g.r), "Find", t))
            ELSE Queried(DbLogged(g.r, "Find", t))
    IN  IF hasRedis THEN Looked(GetLargeValue(r, t, cacheKey, "entities"))
        ELSE Queried(DbLogged(r, "Find", t))

\* FindWhere as it would be if it cached whatever the type of the query
FindWhereCachingAnyQuery(r, t, query, dbFail) ==
    LET cacheKey == generateCacheKeyFromQuery(t, "find_where", query)
        Stored(entities, s) == Out(Swallowed(s), entities, 0, FALSE, s.err = OK, OK)
        Queried(q) ==
            IF dbFail = 1 THEN Out(q, <<>>, 0, FALSE, FALSE, DbError)
            ELSE Stored(rowsWhere(db, t, query),
                        SetLargeWithDependencies(q, cacheKey,
                            marshalEntities(t, rowsWhere(db, t, query)),
                            extractDependenciesFromEntities(t, rowsWhere(db, t, query))))
        Looked(g) ==
            IF g.err = OK THEN Out(g.r, g.val, 0, TRUE, FALSE, OK)
            ELSE Queried(DbLogged(g.r, "Where.Find", t))
    IN  Looked(GetLargeValue(r, t, cacheKey, "entities"))

\* GenericRepository.FindWhere
FindWhere(r, t, query, dbFail) ==
    LET shouldCache == query.kind # "gormDB"
        cacheKey == IF shouldCache THEN generateCacheKeyFromQuery(t, "find_where", query)
                    ELSE ""
        Stored(entities, s) == Out(Swallowed(s), entities, 0, FALSE, s.err = OK, OK)
        Found(q, entities) ==
            IF hasRedis /\ shouldCache
            THEN Stored(entities,
                        SetLargeWithDependencies(q, cacheKey, marshalEntities(t, entities),
                            extractDependenciesFromEntities(t, entities)))
            ELSE Out(q, entities, 0, FALSE, FALSE, OK)
        Queried(q) ==
            IF dbFail = 1 THEN Out(q, <<>>, 0, FALSE, FALSE, DbError)
            ELSE Found(q, rowsWhere(db, t, query))
        Looked(g) ==
            IF g.err = OK THEN Out(g.r, g.val, 0, TRUE, FALSE, OK)
            ELSE IF ~IsKeyNotFound(g.err)
            THEN Queried(DbLogged(Dropped(g.r), "Where.Find", t))
            ELSE Queried(DbLogged(g.r, "Where.Find", t))
    IN  IF hasRedis /\ shouldCache THEN Looked(GetLargeValue(r, t, cacheKey, "entities"))
        ELSE Queried(DbLogged(r, "Where.Find", t))

\* GenericRepository.First
First(r, t, query, dbFail) ==
    LET shouldCache == query.kind # "gormDB"
        cacheKey == IF shouldCache THEN generateCacheKeyFromQuery(t, "first", query)
                    ELSE ""
        Stored(entity, s) == Out(Swallowed(s), <<entity>>, 0, FALSE, s.err = OK, OK)
        Found(q, entities) ==
            IF entities = <<>> THEN Out(q, <<>>, 0, FALSE, FALSE, OK)
            ELSE IF hasRedis /\ shouldCache
            THEN Stored(Head(entities),
                        SetValue(q, cacheKey, marshalEntity(t, Head(entities))))
            ELSE Out(q, <<Head(entities)>>, 0, FALSE, FALSE, OK)
        Queried(q) ==
            IF dbFail = 1 THEN Out(q, <<>>, 0, FALSE, FALSE, DbError)
            ELSE Found(q, rowsWhere(db, t, query))
        Looked(g) ==
            IF g.err = OK THEN Out(g.r, <<g.val>>, 0, TRUE, FALSE, OK)
            ELSE IF ~IsKeyNotFound(g.err)
            THEN Queried(DbLogged(Dropped(g.r), "Where.First", t))
            ELSE Queried(DbLogged(g.r, "Where.First", t))
    IN  IF hasRedis /\ shouldCache THEN Looked(GetValue(r, t, cacheKey, "entity"))
        ELSE Queried(DbLogged(r, "Where.First", t))

\* Count as it would be if it returned the error of a failed cache lookup
CountReturningCacheError(r, t, dbFail) ==
    LET cacheKey == generateCacheKey(t, "count", "")
        Stored(count, s) == Out(Swallowed(s), <<>>, count, FALSE, s.err = OK, OK)
        Queried(q) ==
            IF dbFail = 1 THEN Out(q, <<>>, 0, FALSE, FALSE, DbError)
            ELSE IF hasRedis
            THEN Stored(Cardinality(DOMAIN db[t]),
                        SetValue(q, cacheKey, Itoa(Cardinality(DOMAIN db[t]))))
            ELSE Out(q, <<>>, Cardinality(DOMAIN db[t]), FALSE, FALSE, OK)
        Looked(g) ==
            IF g.err = OK THEN Out(g.r, <<>>, g.val, TRUE, FALSE, OK)
            ELSE IF ~IsKeyNotFound(g.err) THEN Out(g.r, <<>>, 0, FALSE, FALSE, g.err)
            ELSE Queried(DbLogged(g.r, "Count", t))
    IN  IF hasRedis THEN Looked(GetValue(r, t, cacheKey, "int"))
        ELSE Queried(DbLogged(r, "Count", t))

\* GenericRepository.Count
Count(r, t, dbFail) ==
    LET cacheKey == generateCacheKey(t, "count", "")
        Stored(count, s) == Out(Swallowed(s), <<>>, count, FALSE, s.err = OK, OK)
        Counted(q, count) ==
            IF hasRedis THEN Stored(count, SetValue(q, cacheKey, Itoa(count)))
            ELSE Out(q, <<>>, count, FALSE, FALSE, OK)
        Queried(q) ==
            IF dbFail = 1 THEN Out(q, <<>>, 0, FALSE, FALSE, DbError)
            ELSE Counted(q, Cardinality(DOMAIN db[t]))
        Looked(g) ==
            IF g.err = OK THEN Out(g.r, <<>>, g.val, TRUE, FALSE, OK)
            ELSE IF ~IsKeyNotFound(g.err) THEN Queried(DbLogged(Dropped(g.r), "Count", t))
            ELSE Queried(DbLogged(g.r, "Count", t))
    IN  IF hasRedis THEN Looked(GetValue(r, t, cacheKey, "int"))
        ELSE Queried(DbLogged(r, "Count", t))

\* what a write hands back: the backend record, the store, (cacheInvalidated, err)
Wrote(r, store, inval, err) == [r |-> r, db |-> store, inval |-> inval, err |-> err]

\* GenericRepository.Create
Create(r, t, entity, dbFail) ==
    LET q == DbLogged(r, "Create", t)
    IN  IF dbFail = 1 \/ duplicateKey(db, t, <<entity>>) THEN Wrote(q, db, FALSE, DbError)
        ELSE IF hasRedis
        THEN Wrote(invalidateEntityCaches(q, t, entity), inserted(db, t, entity), TRUE, OK)
        ELSE Wrote(q, inserted(db, t, entity), FALSE, OK)

\* Update as it would be if the store write were not followed by invalidation
UpdateWithoutInvalidation(r, t, entity, dbFail) ==
    LET q == DbLogged(r, "Save", t)
    IN  IF dbFail = 1 THEN Wrote(q, db, FALSE, DbError)
        ELSE Wrote(q, inserted(db, t, entity), FALSE, OK)

\* GenericRepository.Update
Update(r, t, entity, dbFail) ==
    LET q == DbLogged(r, "Save", t)
    IN  IF dbFail = 1 THEN Wrote(q, db, FALSE, DbError)
        ELSE IF hasRedis
        THEN Wrote(invalidateEntityCaches(q, t, entity), inserted(db, t, entity), TRUE, OK)
        ELSE Wrote(q, inserted(db, t, entity), FALSE, OK)

\* Delete as it would be if it invalidated the namespace when the lookup
\* finds nothing
DeleteInvalidatingAbsent(r, t, id, dbFail) ==
    LET q == DbLogged(r, "First", t)
        d == DbLogged(q, "Delete", t)
    IN  IF dbFail = 1 THEN Wrote(q, db, FALSE, DbFindError)
        ELSE IF id \notin DOMAIN db[t] THEN Wrote(Swallowed(InvalidateCache(q, t)), db, FALSE, OK)
        ELSE IF dbFail = 2 THEN Wrote(d, db, FALSE, DbError)
        ELSE Wrote(invalidateEntityCaches(d, t, db[t][id]), removed(db, t, id), TRUE, OK)

\* GenericRepository.Delete
Delete(r, t, id, dbFail) ==
    LET q == DbLogged(r, "First", t)
        d == DbLogged(q, "Delete", t)
    IN  IF dbFail = 1 THEN Wrote(q, db, FALSE, DbFindError)
        ELSE IF id \notin DOMAIN db[t] THEN Wrote(q, db, FALSE, OK)
        ELSE IF dbFail = 2 THEN Wrote(d, db, FALSE, DbError)
        ELSE IF hasRedis
        THEN Wrote(invalidateEntityCaches(d, t, db[t][id]), removed(db, t, id), TRUE, OK)
        ELSE Wrote(d, removed(db, t, id), FALSE, OK)

\* CreateBatch as it would be if it invalidated before the store write
CreateBatchInvalidatingFirst(r, t, entities, dbFail) ==
    LET q == DbLogged(invalidateEach(r, t, entities), "Create", t)
    IN  IF entities = <<>> THEN Wrote(r, db, FALSE, OK)
        ELSE IF dbFail = 1 \/ duplicateKey(db, t, entities)
        THEN Wrote(q, db, FALSE, BatchCreateError)
        ELSE Wrote(q, insertedAll(db, t, entities), FALSE, OK)

\* GenericRepository.CreateBatch
CreateBatch(r, t, entities, dbFail) ==
    LET q == DbLogged(r, "Create", t)
    IN  IF entities = <<>> THEN Wrote(r, db, FALSE, OK)
        ELSE IF dbFail = 1 \/ duplicateKey(db, t, entities)
        THEN Wrote(q, db, FALSE, BatchCreateError)
        ELSE IF hasRedis
        THEN Wrote(invalidateEach(q, t, entities), insertedAll(db, t, entities), FALSE, OK)
        ELSE Wrote(q, insertedAll(db, t, entities), FALSE, OK)

\* GenericRepository.UpdateBatch
UpdateBatch(r, t, entities, dbFail) ==
    LET q == DbLogged(r, "Save", t)
    IN  IF entities = <<>> THEN Wrote(r, db, FALSE, OK)
        ELSE IF dbFail = 1 THEN Wrote(q, db, FALSE, BatchUpdateError)
        ELSE IF hasRedis
        THEN Wrote(invalidateEach(q, t, entities), insertedAll(db, t, entities), FALSE, OK)
        ELSE Wrote(q, insertedAll(db, t, entities), FALSE, OK)

(***************************************************************************)
(* The calls of a program on its repositories (one per table), one after   *)
(* the other.                                                              *)
(***************************************************************************)
\* the conditions a caller passes to FindWhere and First
Queries(t) ==
    IF t = "users"
    THEN [kind : {"string", "gormDB"}, field : {"Name"}, arg : Names]
    ELSE [kind : {"string", "gormDB"}, field : {"UserID"}, arg : 1..MaxUserId]

NoQuery == [kind |-> "none", field |-> "", arg |-> 0]

\* the slices a caller passes to CreateBatch and UpdateBatch
MaxBatch == 2
Batches(t) == UNION {[1..n -> Entities(t)] : n \in 0..MaxBatch}

\* the backend as a call finds it
Backend == [kv |-> kv, sets |-> sets, tr |-> <<>>, bad |-> FALSE, dropped |-> FALSE]

\* a call and its inputs: the arguments, and dbFail, the store statement of the
\* call that fails (0: none)
Call(op, t, id, query, entities, dbFail) ==
    [op |-> op, table |-> t, id |-> id, query |-> query, entities |-> entities,
     dbFail |-> dbFail]

Returned(call, rows, n, hit, stored, inval, err, dropped) ==
    [op |-> call.op, table |-> call.table, id |-> call.id, query |-> call.query,
     entities |-> call.entities, dbFail |-> call.dbFail, rows |-> rows, n |-> n, hit |-> hit,
     stored |-> stored, inval |-> inval, err |-> err, dropped |-> dropped]

\* the longest run of calls explored
MaxCalls == 3

\* a read returns: the cache is left as the call left it, the store untouched
ReadDone(call, out) ==
    /\ calls < MaxCalls
    /\ calls' = calls + 1
    /\ kv' = out.r.kv
    /\ sets' = out.r.sets
    /\ trace' = out.r.tr
    /\ failed' = (failed \/ out.r.bad)
    /\ last' = Returned(call, out.rows, out.n, out.hit, out.stored, FALSE, out.err,
                        out.r.dropped)
    /\ UNCHANGED <<db, faults, cacheMode, largeCfg, tagStyle, repos, payload, clock, inflight>>

WriteDone(call, w) ==
    /\ calls < MaxCalls
    /\ calls' = calls + 1
    /\ kv' = w.r.kv
    /\ sets' = w.r.sets
    /\ trace' = w.r.tr
    /\ failed' = (failed \/ w.r.bad)
    /\ db' = w.db
    /\ last' = Returned(call, <<>>, 0, FALSE, FALSE, w.inval, w.err, w.r.dropped)
    /\ UNCHANGED <<faults, cacheMode, largeCfg, tagStyle, repos, payload, clock, inflight>>

DoFindByID ==
    \E t \in repos, dbFail \in 0..1 : \E id \in Ids(t) :
        ReadDone(Call("FindByID", t, id, NoQuery, <<>>, dbFail), FindByID(Backend, t, id, dbFail))

DoFindAll ==
    \E t \in repos, dbFail \in 0..1 :
        ReadDone(Call("FindAll", t, 0, NoQuery, <<>>, dbFail), FindAll(Backend, t, dbFail))

DoFindWhere ==
    \E t \in repos, dbFail \in 0..1 : \E query \in Queries(t) :
        ReadDone(Call("FindWhere", t, 0, query, <<>>, dbFail), FindWhere(Backend, t, query, dbFail))

DoFirst ==
    \E t \in repos, dbFail \in 0..1 : \E query \in Queries(t) :
        ReadDone(Call("First", t, 0, query, <<>>, dbFail), First(Backend, t, query, dbFail))

DoCount ==
    \E t \in repos, dbFail \in 0..1 :
        ReadDone(Call("Count", t, 0, NoQuery, <<>>, dbFail), Count(Backend, t, dbFail))

DoCreate ==
    \E t \in repos, dbFail \in 0..1 : \E entity \in Entities(t) :
        WriteDone(Call("Create", t, entity.ID, NoQuery, <<entity>>, dbFail),
                  Create(Backend, t, entity, dbFail))

DoUpdate ==
    \E t \in repos, dbFail \in 0..1 : \E entity \in Entities(t) :
        WriteDone(Call("Update", t, entity.ID, NoQuery, <<entity>>, dbFail),
                  Update(Backend, t, entity, dbFail))

DoDelete ==
    \E t \in repos, dbFail \in 0..2 : \E id \in Ids(t) :
        WriteDone(Call("Delete", t, id, NoQuery, <<>>, dbFail), Delete(Backend, t, id, dbFail))

DoCreateBatch ==
    \E t \in repos, dbFail \in 0..1 : \E entities \in Batches(t) :
        WriteDone(Call("CreateBatch", t, 0, NoQuery, entities, dbFail),
                  CreateBatch(Backend, t, entities, dbFail))

DoUpdateBatch ==
    \E t \in repos, dbFail \in 0..1 : \E entities \in Batches(t) :
        WriteDone(Call("UpdateBatch", t, 0, NoQuery, entities, dbFail),
                  UpdateBatch(Backend, t, entities, dbFail))

\* the GORM tags the Order struct may carry on its User field
TagStyles == {"foreignKey:UserID", "references:ID"}

DefaultLargeValue == [EnableCompression |-> TRUE, EnableChunking |-> TRUE]

NoCall ==
    Returned(Call("none", "", 0, NoQuery, <<>>, 0), <<>>, 0, FALSE, FALSE, FALSE, OK, FALSE)

\* the rows the store holds when the program starts
SeededStore == [t \in Tables |->
                 IF t = "users" THEN (1 :> [ID |-> 1, Name |-> "A"])
                 ELSE (OrderId :> [ID |-> OrderId, UserID |-> 1])]

Init ==
    /\ db = SeededStore
    /\ calls = 0
    /\ repos = {"users"}
    /\ kv = <<>>
    /\ sets = <<>>
    /\ faults = {}
    /\ cacheMode = "enabled"
    /\ largeCfg = DefaultLargeValue
    /\ tagStyle = "foreignKey:UserID"
    /\ last = NoCall
    /\ trace = <<>>
    /\ failed = FALSE
    /\ payload = ""
    /\ clock = NoClock
    /\ inflight = NoInflight

Next ==
    \/ DoFindByID
    \/ DoFindAll
    \/ DoFindWhere
    \/ DoFirst
    \/ DoCount
    \/ DoCreate
    \/ DoUpdate
    \/ DoDelete
    \/ DoCreateBatch
    \/ DoUpdateBatch

Spec == Init /\ [][Next]_vars

(***************************************************************************)
(* A program with a repository for each table, whose Order struct declares *)
(* its User field in one of the tag styles, and which queries with         *)
(* conditions, updates and deletes.                                        *)
(***************************************************************************)
InitRelated ==
    /\ db = SeededStore
    /\ calls = 0
    /\ repos = Tables
    /\ kv = <<>>
    /\ sets = <<>>
    /\ faults = {}
    /\ cacheMode = "enabled"
    /\ largeCfg = DefaultLargeValue
    /\ tagStyle \in TagStyles
    /\ last = NoCall
    /\ trace = <<>>
    /\ failed = FALSE
    /\ payload = ""
    /\ clock = NoClock
    /\ inflight = NoInflight

NextRelated ==
    \/ DoFindWhere
    \/ DoUpdate
    \/ DoDelete

SpecRelated == InitRelated /\ [][NextRelated]_vars

(***************************************************************************)
(* A program whose cache is unreliable: the cache is configured enabled,   *)
(* disabled or absent, and an enabled backend may begin to fail some of    *)
(* its commands at any moment and goes on failing them.                    *)
(***************************************************************************)
\* the commands a failing backend rejects
FaultSets == {{"GET", "SCAN"}, {"SET", "SMEMBERS"}, {"SADD", "DEL"}}

CacheModes == {"enabled", "disabled", "nil"}

InitDegraded ==
    /\ db = SeededStore
    /\ calls = 0
    /\ repos = {"users"}
    /\ kv = <<>>
    /\ sets = <<>>
    /\ faults = {}
    /\ cacheMode \in CacheModes
    /\ largeCfg = DefaultLargeValue
    /\ tagStyle = "foreignKey:UserID"
    /\ last = NoCall
    /\ trace = <<>>
    /\ failed = FALSE
    /\ payload = ""
    /\ clock = NoClock
    /\ inflight = NoInflight

\* the backend begins to fail
Degrade ==
    /\ cacheMode = "enabled"
    /\ faults = {}
    /\ calls < MaxCalls
    /\ faults' \in FaultSets
    /\ UNCHANGED <<db, kv, sets, cacheMode, largeCfg, tagStyle, last, trace, failed, calls,
                   repos, payload, clock, inflight>>

NextDegraded ==
    \/ Degrade
    \/ DoFindByID
    \/ DoFindAll
    \/ DoFindWhere
    \/ DoFirst
    \/ DoCount
    \/ DoCreate
    \/ DoUpdate
    \/ DoDelete
    \/ DoCreateBatch
    \/ DoUpdateBatch

SpecDegraded == InitDegraded /\ [][NextDegraded]_vars

(***************************************************************************)
(* A program that uses the large-value calls of the manager directly: it   *)
(* stores its payload under one key, reads the key and deletes it, under   *)
(* each setting of compression and chunking.  The key is unused at the     *)
(* start, or holds what an earlier SetLarge left.                          *)
(***************************************************************************)
LargeKey == "k"

Payloads == StringsUpTo({"a", "b"}, MaxPayloadLen)

\* the value an earlier SetLarge may have stored under the key
PriorPayloads == {Repeat("a", 2 * CompressThreshold)}

EmptyBackend == [kv |-> <<>>, sets |-> <<>>, tr |-> <<>>, bad |-> FALSE, dropped |-> FALSE]

\* the key holds no base, metadata or chunk entry
Fresh(keys, key) ==
    \A k \in keys :
        /\ k # key
        /\ k # metadataKey(key)
        /\ ~HasPrefix(k, key \o cacheChunkPrefix \o ":")

\* a direct call of the manager and what it returned; fresh: the key was
\* unused when the call began
LargeCall(op, key, value, err, fresh) ==
    [op |-> op, key |-> key, value |-> value, err |-> err, fresh |-> fresh]

NoLargeCall == LargeCall("none", "", "", OK, FALSE)

\* the call returns; the call before it is kept with it
LargeDone(r, call) ==
    /\ calls < MaxCalls
    /\ calls' = calls + 1
    /\ kv' = r.kv
    /\ sets' = r.sets
    /\ trace' = r.tr
    /\ failed' = (failed \/ r.bad)
    /\ last' = [op |-> call.op, key |-> call.key, value |-> call.value, err |-> call.err,
                fresh |-> call.fresh,
                prev |-> LargeCall(last.op, last.key, last.value, last.err, last.fresh)]
    /\ UNCHANGED <<db, faults, cacheMode, largeCfg, tagStyle, repos, payload, clock, inflight>>

DoSetLarge ==
    LET Stored(s) ==
            LargeDone(s.r, LargeCall("SetLarge", LargeKey, payload, s.err,
                                     Fresh(DOMAIN kv \cup DOMAIN sets, LargeKey)))
    IN  Stored(SetLarge(Backend, LargeKey, payload))

DoGetLarge ==
    LET Read(g) == LargeDone(g.r, LargeCall("GetLarge", LargeKey, g.val, g.err, FALSE))
    IN  Read(GetLarge(Backend, LargeKey))

DoDeleteLarge ==
    LET Deleted(d) == LargeDone(d.r, LargeCall("DeleteLarge", LargeKey, "", d.err, FALSE))
    IN  Deleted(DeleteLarge(Backend, LargeKey))

InitLarge ==
    /\ db = SeededStore
    /\ calls = 0
    /\ repos = {}
    /\ sets = <<>>
    /\ faults = {}
    /\ cacheMode = "enabled"
    /\ largeCfg \in [EnableCompression : BOOLEAN, EnableChunking : BOOLEAN]
    /\ kv \in {<<>>} \cup {SetLarge(EmptyBackend, LargeKey, q).r.kv : q \in PriorPayloads}
    /\ tagStyle = "foreignKey:UserID"
    /\ last = [op |-> "none", key |-> "", value |-> "", err |-> OK, fresh |-> FALSE,
               prev |-> NoLargeCall]
    /\ trace = <<>>
    /\ failed = FALSE
    /\ payload \in Payloads
    /\ clock = NoClock
    /\ inflight = NoInflight

NextLarge ==
    \/ DoSetLarge
    \/ DoGetLarge
    \/ DoDeleteLarge

SpecLarge == InitLarge /\ [][NextLarge]_vars

(***************************************************************************)
(* The large-value program over a keyspace that does not stay as SetLarge  *)
(* left it: Redis expires or evicts single keys (every chunk and the       *)
(* metadata record carry their own TTL), and the server is shared, so      *)
(* another writer can replace what a key holds.                            *)
(***************************************************************************)
\* values stored compressed in chunks, raw in chunks, compressed in one
\* entry, and as they are
DamagedPayloads == {"aaaaaabb", "abababab", "aaaaaaaa", "ab"}

\* what another writer may leave under a key
DamagedValues == {"garbage", "chunked:true", "chunked:true:x", "chunked:false:-1"}

\* the keyspace changes without a call of the manager
Damaged(keys) ==
    /\ calls < MaxCalls
    /\ calls' = calls + 1
    /\ kv' = keys
    /\ trace' = <<>>
    /\ last' = [op |-> "damage", key |-> "", value |-> "", err |-> OK, fresh |-> FALSE,
                prev |-> LargeCall(last.op, last.key, last.value, last.err, last.fresh)]
    /\ UNCHANGED <<db, sets, faults, cacheMode, largeCfg, tagStyle, repos, payload, failed,
                   clock, inflight>>

\* a key expires or is evicted
Evict == \E k \in DOMAIN kv : Damaged(Without(kv, {k}))

\* another writer replaces the value of a key
Overwrite == \E k \in DOMAIN kv : \E v \in DamagedValues : Damaged([kv EXCEPT ![k] = v])

InitDamaged ==
    /\ db = SeededStore
    /\ calls = 0
    /\ repos = {}
    /\ sets = <<>>
    /\ faults = {}
    /\ cacheMode = "enabled"
    /\ largeCfg \in [EnableCompression : BOOLEAN, EnableChunking : BOOLEAN]
    /\ kv = <<>>
    /\ tagStyle = "foreignKey:UserID"
    /\ last = [op |-> "none", key |-> "", value |-> "", err |-> OK, fresh |-> FALSE,
               prev |-> NoLargeCall]
    /\ trace = <<>>
    /\ failed = FALSE
    /\ payload \in DamagedPayloads
    /\ clock = NoClock
    /\ inflight = NoInflight

NextDamaged ==
    \/ DoSetLarge
    \/ DoGetLarge
    \/ DoDeleteLarge
    \/ Evict
    \/ Overwrite

SpecDamaged == InitDamaged /\ [][NextDamaged]_vars

(***************************************************************************)
(* A program that chooses its own keys for the large-value calls.  SetLarge*)
(* and GetLarge take any string as the key.                                *)
(***************************************************************************)
CallerKeys == {LargeKey, "j", LargeKey \o cacheMetadataSuffix}

CallerPayloads == {"aaaaaaaa", "abababab", "ab"}

DoSetLargeAt ==
    \E key \in CallerKeys :
        LET Stored(s) ==
                LargeDone(s.r, LargeCall("SetLarge", key, payload, s.err,
                                         Fresh(DOMAIN kv \cup DOMAIN sets, key)))
        IN  Stored(SetLarge(Backend, key, payload))

DoGetLargeAt ==
    \E key \in CallerKeys :
        LET Read(g) == LargeDone(g.r, LargeCall("GetLarge", key, g.val, g.err, FALSE))
        IN  Read(GetLarge(Backend, key))

InitKeys ==
    /\ db = SeededStore
    /\ calls = 0
    /\ repos = {}
    /\ sets = <<>>
    /\ faults = {}
    /\ cacheMode = "enabled"
    /\ largeCfg \in [EnableCompression : BOOLEAN, EnableChunking : BOOLEAN]
    /\ kv = <<>>
    /\ tagStyle = "foreignKey:UserID"
    /\ last = [op |-> "none", key |-> "", value |-> "", err |-> OK, fresh |-> FALSE,
               prev |-> NoLargeCall]
    /\ trace = <<>>
    /\ failed = FALSE
    /\ payload \in CallerPayloads
    /\ clock = NoClock
    /\ inflight = NoInflight

NextKeys ==
    \/ DoSetLargeAt
    \/ DoGetLargeAt

SpecKeys == InitKeys /\ [][NextKeys]_vars

(***************************************************************************)
(* The dependency sets in time.  Redis keeps an expiry time with every key *)
(* that was given a TTL, and removes the key when the time is reached.     *)
(* SET with a TTL replaces the expiry time of the key, SADD creates a set  *)
(* without one and leaves the one of an existing set alone, EXPIRE sets    *)
(* the one of an existing key.                                             *)
(***************************************************************************)
\* Config.DefaultTTL, in ticks of the clock
DefaultTTL == 2

\* the clock stops here
MaxTime == 4

\* the same TTL for values and dependency sets
ttlOfCommandSame(cmd) == DefaultTTL

\* the TTL the manager passes to a command: DefaultTTL with every SET,
\* DefaultTTL*2 with every EXPIRE
ttlOfCommand(cmd) == IF cmd = "EXPIRE" THEN DefaultTTL * 2 ELSE DefaultTTL

\* the expiry times after the commands tr, issued at time now
RECURSIVE expiryAfter(_, _, _)
expiryAfter(exp, tr, now) ==
    LET c == Head(tr)
        After(e) == expiryAfter(e, Tail(tr), now)
    IN  IF tr = <<>> THEN exp
        ELSE CASE c.cmd = "SET" ->
                    After([k \in c.keys |-> now + ttlOfCommand(c.cmd)] @@ exp)
               [] c.cmd = "SADD" ->
                    After([k \in c.keys \ DOMAIN exp |-> NoExpiry] @@ exp)
               [] c.cmd = "EXPIRE" ->
                    After([k \in c.keys \cap DOMAIN exp |-> now + ttlOfCommand(c.cmd)] @@ exp)
               [] c.cmd = "DEL" -> After(Without(exp, c.keys))
               [] OTHER -> After(exp)

\* a value is stored under the key, in one entry or in chunks
StoredValue(keys, key) == key \in DOMAIN keys \/ metadataKey(key) \in DOMAIN keys

\* the keys whose time has come
Expired(exp, now) == {k \in DOMAIN exp : exp[k] # NoExpiry /\ exp[k] <= now}

DepKeys == {"a", "b"}

DepIdentities == {<<"users", "1">>, <<"users", "2">>}

DepLists == {<<<<"users", "1">>>>, <<<<"users", "2">>>>,
             <<<<"users", "1">>, <<"users", "2">>>>}

\* one value stored in a single entry, one stored in chunks
DepValues == {"ab", "abababab"}

Range(s) == {s[i] : i \in DOMAIN s}

\* a call of the dependency interface: the cache key, the identities, what it
\* returned; stores: the call stores the value of the key
DepCall(op, key, deps, err, val, stores) ==
    [op |-> op, key |-> key, deps |-> deps, err |-> err, val |-> val, stores |-> stores]

NoDepCall == DepCall("none", "", <<>>, OK, {}, FALSE)

\* the links history keeps after the call: a value stored again starts
\* without links, a link operation that returned nil links the value to the
\* sets it named, and the links of a value that is gone are forgotten
linksAfter(r, call) ==
    LET kept == IF call.stores /\ call.err = OK
                THEN {l \in clock.links : l[2] # call.key} ELSE clock.links
        made == IF call.err = OK /\ call.key # ""
                THEN {<<dependencyKey(d[1], d[2]), call.key>> : d \in Range(call.deps)}
                ELSE {}
    IN  {l \in kept \cup made : StoredValue(r.kv, l[2])}

\* the call returns
DepDone(r, call) ==
    /\ calls < MaxCalls
    /\ calls' = calls + 1
    /\ kv' = r.kv
    /\ sets' = r.sets
    /\ trace' = r.tr
    /\ failed' = (failed \/ r.bad)
    /\ last' = [op |-> call.op, key |-> call.key, deps |-> call.deps, err |-> call.err,
                val |-> call.val, stores |-> call.stores,
                prev |-> DepCall(last.op, last.key, last.deps, last.err, last.val,
                                 last.stores)]
    /\ clock' = [now |-> clock.now,
                 exp |-> expiryAfter(clock.exp, r.tr, clock.now),
                 links |-> linksAfter(r, call)]
    /\ UNCHANGED <<db, faults, cacheMode, largeCfg, tagStyle, repos, payload, inflight>>

DoSetWithDependencies ==
    \E key \in DepKeys : \E deps \in DepLists :
        LET Stored(s) == DepDone(s.r, DepCall("SetWithDependencies", key, deps, s.err, {}, TRUE))
        IN  Stored(SetWithDependencies(Backend, key, "ab", deps))

DoSetLargeWithDependencies ==
    \E key \in DepKeys : \E deps \in DepLists :
        LET Stored(s) ==
                DepDone(s.r, DepCall("SetLargeWithDependencies", key, deps, s.err, {}, TRUE))
        IN  Stored(SetLargeWithDependencies(Backend, key, payload, deps))

DoAddDependency ==
    \E key \in DepKeys : \E d \in DepIdentities :
        LET Added(a) == DepDone(a.r, DepCall("AddDependency", key, <<d>>, a.err, {}, FALSE))
        IN  Added(AddDependency(Backend, d[1], d[2], key))

DoAddMultipleDependencies ==
    \E key \in DepKeys : \E deps \in DepLists :
        LET Added(a) ==
                DepDone(a.r, DepCall("AddMultipleDependencies", key, deps, a.err, {}, FALSE))
        IN  Added(AddMultipleDependencies(Backend, deps, key))

DoInvalidateEntityDependencies ==
    \E d \in DepIdentities :
        LET Invalidated(i) ==
                DepDone(i.r, DepCall("InvalidateEntityDependencies", "", <<d>>, i.err, {},
                                     FALSE))
        IN  Invalidated(InvalidateEntityDependencies(Backend, d[1], d[2]))

DoGetDependencies ==
    \E d \in DepIdentities :
        LET Got(g) == DepDone(g.r, DepCall("GetDependencies", "", <<d>>, g.err, g.val, FALSE))
        IN  Got(GetDependencies(Backend, d[1], d[2]))

\* time passes: the keys whose expiry time is reached are removed
Tick ==
    LET gone == Expired(clock.exp, clock.now + 1)
    IN  /\ clock.now < MaxTime
        /\ kv' = Without(kv, gone)
        /\ sets' = Without(sets, gone)
        /\ clock' = [now |-> clock.now + 1,
                     exp |-> Without(clock.exp, gone),
                     links |-> {l \in clock.links : StoredValue(Without(kv, gone), l[2])}]
        /\ UNCHANGED <<db, calls, faults, cacheMode, largeCfg, tagStyle, repos, payload,
                       last, trace, failed, inflight>>

InitDeps ==
    /\ db = SeededStore
    /\ calls = 0
    /\ repos = {}
    /\ sets = <<>>
    /\ faults = {}
    /\ cacheMode = "enabled"
    /\ largeCfg = DefaultLargeValue
    /\ kv = <<>>
    /\ tagStyle = "foreignKey:UserID"
    /\ last = [op |-> "none", key |-> "", deps |-> <<>>, err |-> OK, val |-> {},
               stores |-> FALSE, prev |-> NoDepCall]
    /\ trace = <<>>
    /\ failed = FALSE
    /\ payload \in DepValues
    /\ clock = NoClock
    /\ inflight = NoInflight

NextDeps ==
    \/ DoSetWithDependencies
    \/ DoSetLargeWithDependencies
    \/ DoAddDependency
    \/ DoAddMultipleDependencies
    \/ DoInvalidateEntityDependencies
    \/ DoGetDependencies
    \/ Tick

SpecDeps == InitDeps /\ [][NextDeps]_vars

(***************************************************************************)
(* A program whose User implements RelationshipAware: GetRelationships     *)
(* names the related entities, some of them without an id.  The cache      *)
(* holds a value that the dependency sets of the user and of the related   *)
(* entities list, and the backend may begin to fail.                       *)
(***************************************************************************)
RelatedEntity(relationType, entityType, entityID) ==
    [relationType |-> relationType, EntityType |-> entityType, EntityID |-> entityID]

RelatedChoices ==
    {RelatedEntity("has_many", "orders", OrderId), RelatedEntity("belongs_to", "teams", 2),
     RelatedEntity("belongs_to", "teams", Nil)}

\* what GetRelationships may return
RelatedLists == {<<a>> : a \in RelatedChoices} \cup {<<a, b>> : a, b \in RelatedChoices}

AwareUsers == [ID : Ids("users"), Name : {"A"}, Relationships : RelatedLists]

DoCreateAware ==
    \E dbFail \in 0..1 : \E entity \in AwareUsers :
        WriteDone(Call("Create", "users", entity.ID, NoQuery, <<entity>>, dbFail),
                  Create(Backend, "users", entity, dbFail))

DoUpdateAware ==
    \E dbFail \in 0..1 : \E entity \in AwareUsers :
        WriteDone(Call("Update", "users", entity.ID, NoQuery, <<entity>>, dbFail),
                  Update(Backend, "users", entity, dbFail))

CachedQuery == "sql4go:" \o dbName \o ":users:all"

InitCascade ==
    /\ db = SeededStore
    /\ calls = 0
    /\ repos = {"users"}
    /\ kv = (CachedQuery :> "[]")
    /\ sets = [k \in {dependencyKey("users", "1"), dependencyKey("orders", FmtV(OrderId)),
                      dependencyKey("teams", "2")} |-> {CachedQuery}]
    /\ faults = {}
    /\ cacheMode = "enabled"
    /\ largeCfg = DefaultLargeValue
    /\ tagStyle = "foreignKey:UserID"
    /\ last = NoCall
    /\ trace = <<>>
    /\ failed = FALSE
    /\ payload = ""
    /\ clock = NoClock
    /\ inflight = NoInflight

NextCascade ==
    \/ Degrade
    \/ DoCreateAware
    \/ DoUpdateAware
    \/ DoDelete

SpecCascade == InitCascade /\ [][NextCascade]_vars

(***************************************************************************)
(* The manager's stores as the server sees them.  client.Pipeline() queues *)
(* commands and Exec sends them in one round trip; it is not a MULTI/EXEC  *)
(* transaction (that is TxPipeline), so the server executes the commands   *)
(* one by one and serves other clients in between.  A call that makes      *)
(* several submissions (SetLargeWithDependencies: SetLarge, then           *)
(* AddMultipleDependencies) can end between two of them, when its context  *)
(* is cancelled or the process dies.  Other clients read at any moment.    *)
(***************************************************************************)
\* one value stored as it is, one compressed with a metadata entry, one in
\* chunks
PipelinePayloads == {"ab", "aaaaaaaa", "abababab"}

\* a call whose commands are on their way: tr, the commands it issues in
\* order; kv, the values they write; at, how many the server has executed;
\* cut, the call ended before its later submissions
Submitted(op, key, value, deps, s) ==
    [op |-> op, key |-> key, value |-> value, deps |-> deps, err |-> s.err,
     tr |-> s.r.tr, kv |-> s.r.kv, at |-> 0, cut |-> FALSE]

\* the caller starts a store: nothing has reached the server yet
Submit(call) ==
    /\ calls < MaxCalls
    /\ IF inflight.op = "none" THEN TRUE
       ELSE inflight.cut \/ inflight.at = Len(inflight.tr)
    /\ call.err = OK
    /\ calls' = calls + 1
    /\ inflight' = call
    /\ UNCHANGED <<db, kv, sets, faults, cacheMode, largeCfg, tagStyle, last, trace, failed,
                   repos, payload, clock>>

SubmitSetWithDependencies ==
    \E key \in DepKeys : \E deps \in DepLists :
        LET Sent(s) == Submit(Submitted("SetWithDependencies", key, "ab", deps, s))
        IN  Sent(SetWithDependencies(Backend, key, "ab", deps))

SubmitSetLargeWithDependencies ==
    \E key \in DepKeys : \E deps \in DepLists :
        LET Sent(s) == Submit(Submitted("SetLargeWithDependencies", key, payload, deps, s))
        IN  Sent(SetLargeWithDependencies(Backend, key, payload, deps))

\* the server executes the next command of the call
Execute ==
    /\ inflight.op # "none"
    /\ ~inflight.cut
    /\ inflight.at < Len(inflight.tr)
    /\ LET c == inflight.tr[inflight.at + 1]
       IN  /\ kv' = IF c.cmd = "SET" THEN [k \in c.keys |-> inflight.kv[k]] @@ kv ELSE kv
           /\ sets' = CASE c.cmd = "SET" -> Without(sets, c.keys)
                        [] c.cmd = "SADD" ->
                             [k \in c.keys |->
                                 (IF k \in DOMAIN sets THEN sets[k] ELSE {}) \cup {inflight.key}]
                                 @@ sets
                        [] OTHER -> sets
    /\ inflight' = [inflight EXCEPT !.at = @ + 1]
    /\ UNCHANGED <<db, faults, cacheMode, largeCfg, tagStyle, last, trace, failed, calls,
                   repos, payload, clock>>

\* the call ends between two of its submissions: the context is cancelled
\* or the process dies, and the later submissions are never sent
Cancel ==
    /\ inflight.op # "none"
    /\ ~inflight.cut
    /\ 0 < inflight.at
    /\ inflight.at < Len(inflight.tr)
    /\ inflight.tr[inflight.at].sub # inflight.tr[inflight.at + 1].sub
    /\ inflight' = [inflight EXCEPT !.cut = TRUE]
    /\ UNCHANGED <<db, kv, sets, faults, cacheMode, largeCfg, tagStyle, last, trace, failed,
                   calls, repos, payload, clock>>

\* what another client read
Observed(op, key, deps, err, val, tr) ==
    /\ last' = [op |-> op, key |-> key, deps |-> deps, err |-> err, val |-> val]
    /\ trace' = tr
    /\ UNCHANGED <<db, kv, sets, faults, cacheMode, largeCfg, tagStyle, failed, calls,
                   repos, payload, clock, inflight>>

\* another client reads the value
ObserveValue ==
    \E key \in DepKeys :
        LET Read(g) == Observed("GetLarge", key, <<>>, g.err, g.val, g.r.tr)
        IN  Read(GetLarge(Backend, key))

\* another client reads a dependency set
ObserveDependencies ==
    \E d \in DepIdentities :
        LET Read(g) == Observed("GetDependencies", "", <<d>>, g.err, g.val, g.r.tr)
        IN  Read(GetDependencies(Backend, d[1], d[2]))

InitPipeline ==
    /\ db = SeededStore
    /\ calls = 0
    /\ repos = {}
    /\ sets = <<>>
    /\ faults = {}
    /\ cacheMode = "enabled"
    /\ largeCfg = DefaultLargeValue
    /\ kv = <<>>
    /\ tagStyle = "foreignKey:UserID"
    /\ last = [op |-> "none", key |-> "", deps |-> <<>>, err |-> OK, val |-> ""]
    /\ trace = <<>>
    /\ failed = FALSE
    /\ payload \in PipelinePayloads
    /\ clock = NoClock
    /\ inflight = NoInflight

NextPipeline ==
    \/ SubmitSetWithDependencies
    \/ SubmitSetLargeWithDependencies
    \/ Execute
    \/ Cancel
    \/ ObserveValue
    \/ ObserveDependencies

SpecPipeline == InitPipeline /\ [][NextPipeline]_vars

(***************************************************************************)
(* A key that holds a large value is stored again, or deleted, by one      *)
(* client while another reads it.  The commands of SetLarge reach the      *)
(* server one at a time (inflight, as above); the reader's GetLarge runs   *)
(* between two of them.                                                    *)
(***************************************************************************)
\* two values stored in chunks, one stored plain, one stored compressed
OverwritePayloads == {"abababab", "babababa", "ab", "aaaaaaaa"}

\* last.stored: the payloads handed to SetLarge so far
Overwriting(op, err, val, stored) ==
    [op |-> op, key |-> LargeKey, err |-> err, val |-> val, stored |-> stored]

SubmitSetLarge ==
    \E value \in OverwritePayloads :
        LET Sent(s) ==
                /\ s.err = OK
                /\ inflight' = Submitted("SetLarge", LargeKey, value, <<>>, s)
                /\ last' = Overwriting("SetLarge", s.err, value, last.stored \cup {value})
                /\ trace' = s.r.tr
        IN  /\ calls < MaxCalls
            /\ IF inflight.op = "none" THEN TRUE ELSE inflight.at = Len(inflight.tr)
            /\ calls' = calls + 1
            /\ Sent(SetLarge(Backend, LargeKey, value))
            /\ UNCHANGED <<db, kv, sets, faults, cacheMode, largeCfg, tagStyle, failed, repos,
                           payload, clock>>

\* the other client reads the key
ReadLarge ==
    LET Read(g) ==
            /\ last' = Overwriting("GetLarge", g.err, g.val, last.stored)
            /\ trace' = g.r.tr
    IN  /\ Read(GetLarge(Backend, LargeKey))
        /\ UNCHANGED <<db, kv, sets, faults, cacheMode, largeCfg, tagStyle, failed, calls,
                       repos, payload, clock, inflight>>

\* DeleteLarge by the writing client, between two of its stores: its one DEL
\* removes the keys together
DeleteLargeBetween ==
    /\ calls < MaxCalls
    /\ IF inflight.op = "none" THEN TRUE ELSE inflight.at = Len(inflight.tr)
    /\ calls' = calls + 1
    /\ LET Deleted(d) ==
               /\ kv' = d.r.kv
               /\ sets' = d.r.sets
               /\ trace' = d.r.tr
               /\ last' = Overwriting("DeleteLarge", d.err, "", last.stored)
       IN  Deleted(DeleteLarge(Backend, LargeKey))
    /\ UNCHANGED <<db, faults, cacheMode, largeCfg, tagStyle, failed, repos, payload, clock,
                   inflight>>

InitOverwrite ==
    /\ db = SeededStore
    /\ calls = 0
    /\ repos = {}
    /\ sets = <<>>
    /\ faults = {}
    /\ cacheMode = "enabled"
    /\ largeCfg = DefaultLargeValue
    /\ tagStyle = "foreignKey:UserID"
    /\ payload \in OverwritePayloads
    /\ kv = SetLarge(EmptyBackend, LargeKey, payload).r.kv
    /\ last = Overwriting("none", OK, "", {payload})
    /\ trace = <<>>
    /\ failed = FALSE
    /\ clock = NoClock
    /\ inflight = NoInflight

NextOverwrite ==
    \/ SubmitSetLarge
    \/ Execute
    \/ ReadLarge
    \/ DeleteLargeBetween

SpecOverwrite == InitOverwrite /\ [][NextOverwrite]_vars

(***************************************************************************)
(* Two instances of the program at the same time: one runs FindByID of a   *)
(* user, the other Update of the same user.  Each call is a sequence of    *)
(* steps against the cache and the store (the lookup, the query and the    *)
(* store of FindByID; the save and the invalidation of Update), and the    *)
(* steps of the two interleave in any order.  A later FindByID runs when   *)
(* both have returned.                                                     *)
(***************************************************************************)
RaceTable == "users"
RaceId == MaxUserId

\* inflight.log: the steps taken so far, in order
Racing(reader, writer, step) ==
    [op |-> "race", reader |-> reader, writer |-> writer, log |-> Append(inflight.log, step)]

Reader(pc, entity, hit, stored) == [pc |-> pc, entity |-> entity, hit |-> hit, stored |-> stored]

\* a step of one of the two calls: the cache as the step left it
Stepped(r, store, reader, writer, step) ==
    /\ kv' = r.kv
    /\ sets' = r.sets
    /\ db' = store
    /\ failed' = (failed \/ r.bad)
    /\ inflight' = Racing(reader, writer, step)
    /\ UNCHANGED <<faults, cacheMode, largeCfg, tagStyle, last, trace, calls, repos, payload,
                   clock>>

\* FindByID: the cache lookup; a hit returns
ReaderLookup ==
    /\ inflight.reader.pc = "start"
    /\ LET Looked(g) ==
               Stepped(g.r, db,
                       IF g.err = OK THEN Reader("done", g.val, TRUE, FALSE)
                       ELSE Reader("query", Nil, FALSE, FALSE),
                       inflight.writer, "lookup")
       IN  Looked(findByIDLookup(Backend, RaceTable, RaceId))

\* FindByID: the query of the store
ReaderQuery ==
    /\ inflight.reader.pc = "query"
    /\ Stepped(Backend, db,
               IF RaceId \in DOMAIN db[RaceTable]
               THEN Reader("store", db[RaceTable][RaceId], FALSE, FALSE)
               ELSE Reader("done", Nil, FALSE, FALSE),
               inflight.writer, "query")

\* FindByID: the store of what the query found
ReaderStore ==
    /\ inflight.reader.pc = "store"
    /\ LET Stored(s) ==
               Stepped(Swallowed(s), db,
                       Reader("done", inflight.reader.entity, FALSE, s.err = OK),
                       inflight.writer, "store")
       IN  Stored(findByIDStore(Backend, RaceTable, RaceId, inflight.reader.entity))

\* Update: the save
WriterSave ==
    /\ inflight.writer.pc = "start"
    /\ Stepped(Backend, inserted(db, RaceTable, inflight.writer.entity), inflight.reader,
               [inflight.writer EXCEPT !.pc = "invalidate"], "save")

\* Update: the invalidation
WriterInvalidate ==
    /\ inflight.writer.pc = "invalidate"
    /\ Stepped(invalidateEntityCaches(Backend, RaceTable, inflight.writer.entity), db,
               inflight.reader, [inflight.writer EXCEPT !.pc = "done"], "invalidate")

BothReturned == inflight.reader.pc = "done" /\ inflight.writer.pc = "done"

\* a call made after both have returned
LaterFindByID ==
    /\ BothReturned
    /\ DoFindByID

\* the value a FindByID before the race has cached
EarlierFindByID == FindByID(EmptyBackend, RaceTable, RaceId, 0).r.kv

InitRace ==
    /\ db = SeededStore
    /\ calls = 0
    /\ repos = {RaceTable}
    /\ sets = <<>>
    /\ faults = {}
    /\ cacheMode = "enabled"
    /\ largeCfg = DefaultLargeValue
    /\ tagStyle = "foreignKey:UserID"
    /\ kv \in {<<>>, EarlierFindByID}
    /\ last = NoCall
    /\ trace = <<>>
    /\ failed = FALSE
    /\ payload = ""
    /\ clock = NoClock
    /\ \E entity \in Entities(RaceTable) :
          inflight = [op |-> "race", reader |-> Reader("start", Nil, FALSE, FALSE),
                      writer |-> [pc |-> "start", entity |-> entity], log |-> <<>>]

NextRace ==
    \/ ReaderLookup
    \/ ReaderQuery
    \/ ReaderStore
    \/ WriterSave
    \/ WriterInvalidate
    \/ LaterFindByID

SpecRace == InitRace /\ [][NextRace]_vars

(***************************************************************************)
(* The cache keys in time.  A repository of users computes keys, between   *)
(* calls that change the cache and the store; inflight.made keeps every    *)
(* key computed so far with the inputs it was computed from, the order in  *)
(* which the run iterated over a map-typed query, and the cache contents   *)
(* at the time.                                                            *)
(***************************************************************************)
\* the most keys kept
MaxKeys == 2

KeyOperations == {"find_by_id", "find_all"}
KeySuffixes == {"", "1"}
QueryOperations == {"find_where", "first"}

\* the map-typed queries over the columns of users
MapEntries ==
    {[c \in {"id"} |-> 1]}
        \cup {[c \in {"name"} |-> n] : n \in Names}
        \cup {[c \in {"id", "name"} |-> IF c = "id" THEN 1 ELSE n] : n \in Names}

\* the orders in which the keys of a map may be iterated
IterationOrders(entries) ==
    {order \in [1..Cardinality(DOMAIN entries) -> DOMAIN entries] :
        \A i, j \in DOMAIN order : order[i] = order[j] => i = j}

KeyMade(fn, operation, arg, order, key) ==
    [fn |-> fn, operation |-> operation, arg |-> arg, order |-> order, key |-> key,
     seen |-> DOMAIN kv, nth |-> Cardinality(inflight.made)]

MakeKey(made) ==
    /\ Cardinality(inflight.made) < MaxKeys
    /\ inflight' = [op |-> "keys", made |-> inflight.made \cup {made}]
    /\ UNCHANGED <<db, kv, sets, faults, cacheMode, largeCfg, tagStyle, last, trace, failed,
                   calls, repos, payload, clock>>

DoGenerateCacheKey ==
    \E operation \in KeyOperations, suffix \in KeySuffixes :
        MakeKey(KeyMade("generateCacheKey", operation, [kind |-> "suffix", suffix |-> suffix],
                        <<>>, generateCacheKey("users", operation, suffix)))

DoGenerateCacheKeyFromQuery ==
    \E operation \in QueryOperations :
        \/ \E query \in Queries("users") :
              MakeKey(KeyMade("generateCacheKeyFromQuery", operation, query, <<>>,
                              generateCacheKeyFromQuery("users", operation, query)))
        \/ \E entries \in MapEntries : \E order \in IterationOrders(entries) :
              MakeKey(KeyMade("generateCacheKeyFromQuery", operation,
                              [kind |-> "map", entries |-> entries], order,
                              generateCacheKeyFromQuery("users", operation,
                                  [kind |-> "map", entries |-> entries, order |-> order])))

InitKeygen ==
    /\ db = SeededStore
    /\ calls = 0
    /\ repos = {"users"}
    /\ kv = <<>>
    /\ sets = <<>>
    /\ faults = {}
    /\ cacheMode = "enabled"
    /\ largeCfg = DefaultLargeValue
    /\ tagStyle = "foreignKey:UserID"
    /\ last = NoCall
    /\ trace = <<>>
    /\ failed = FALSE
    /\ payload = ""
    /\ clock = NoClock
    /\ inflight = [op |-> "keys", made |-> {}]

NextKeygen ==
    \/ DoGenerateCacheKey
    \/ DoGenerateCacheKeyFromQuery
    \/ DoFindByID
    \/ DoDelete

SpecKeygen == InitKeygen /\ [][NextKeygen]_vars

(***************************************************************************)
(* A program whose users table holds two rows, so that the encoding of a   *)
(* list of users is longer than the largest value the cache accepts.       *)
(***************************************************************************)
\* the stores with a second user
CrowdedStores ==
    {[SeededStore EXCEPT !["users"] =
          (1 :> [ID |-> 1, Name |-> "A"]) @@ ((MaxUserId + 1) :> [ID |-> MaxUserId + 1, Name |-> n])] :
        n \in Names}

InitOversize ==
    /\ db \in CrowdedStores
    /\ calls = 0
    /\ repos = {"users"}
    /\ kv = <<>>
    /\ sets = <<>>
    /\ faults = {}
    /\ cacheMode \in {"enabled", "nil"}
    /\ largeCfg = DefaultLargeValue
    /\ tagStyle = "foreignKey:UserID"
    /\ last = NoCall
    /\ trace = <<>>
    /\ failed = FALSE
    /\ payload = ""
    /\ clock = NoClock
    /\ inflight = NoInflight

NextOversize ==
    \/ DoFindByID
    \/ DoFindAll
    \/ DoFindWhere
    \/ DoUpdate
    \/ DoDelete

SpecOversize == InitOversize /\ [][NextOversize]_vars

(***************************************************************************)
(* A program with a repository for each table that reads through the       *)
(* cache and invalidates the namespace of a table, beside a program that   *)
(* keeps another database in the same cache.                               *)
(***************************************************************************)
\* the database of the other program
OtherDbName == dbName \o "2"

\* what the other program has cached: FindByID of its user 1
OtherStoreEntries ==
    (cacheKeyPrefix \o cacheKeySeparator \o OtherDbName \o cacheKeySeparator \o "users"
         \o cacheKeySeparator \o "find_by_id" \o cacheKeySeparator \o "1")
        :> marshalEntity("users", [ID |-> 1, Name |-> "B"])

DoInvalidateCache ==
    \E t \in repos :
        LET Done(x) ==
                /\ calls < MaxCalls
                /\ calls' = calls + 1
                /\ kv' = x.r.kv
                /\ sets' = x.r.sets
                /\ trace' = x.r.tr
                /\ failed' = (failed \/ x.r.bad)
                /\ last' = Returned(Call("InvalidateCache", t, 0, NoQuery, <<>>, 0), <<>>, 0,
                                    FALSE, FALSE, FALSE, x.err, x.r.dropped)
                /\ UNCHANGED <<db, faults, cacheMode, largeCfg, tagStyle, repos, payload, clock,
                               inflight>>
        IN  Done(InvalidateCache(Backend, t))

InitNamespace ==
    /\ db = SeededStore
    /\ calls = 0
    /\ repos = Tables
    /\ sets = <<>>
    /\ faults = {}
    /\ cacheMode = "enabled"
    /\ largeCfg = DefaultLargeValue
    /\ tagStyle = "foreignKey:UserID"
    /\ kv = OtherStoreEntries
    /\ last = NoCall
    /\ trace = <<>>
    /\ failed = FALSE
    /\ payload = ""
    /\ clock = NoClock
    /\ inflight = NoInflight

NextNamespace ==
    \/ DoFindByID
    \/ DoFindAll
    \/ DoFindWhere
    \/ DoInvalidateCache

SpecNamespace == InitNamespace /\ [][NextNamespace]_vars

(***************************************************************************)
(* A program in store-only mode: its repository was built with a nil cache *)
(* manager, or with a manager whose config has Enabled = false.  The cache *)
(* backend still holds what an earlier run with the cache enabled left.    *)
(***************************************************************************)
\* what the earlier run cached: a user 1 that the store no longer holds so
LeftoverEntries ==
    generateCacheKey("users", "find_by_id", "1") :> marshalEntity("users", [ID |-> 1, Name |-> "B"])

DoPing ==
    /\ cacheMode # "nil"
    /\ calls < MaxCalls
    /\ calls' = calls + 1
    /\ LET Pinged(x) ==
               /\ kv' = x.r.kv
               /\ sets' = x.r.sets
               /\ trace' = x.r.tr
               /\ failed' = (failed \/ x.r.bad)
               /\ last' = Returned(Call("Ping", "", 0, NoQuery, <<>>, 0), <<>>, 0, FALSE, FALSE,
                                   FALSE, x.err, x.r.dropped)
       IN  Pinged(Ping(Backend))
    /\ UNCHANGED <<db, faults, cacheMode, largeCfg, tagStyle, repos, payload, clock, inflight>>

InitStoreOnly ==
    /\ db = SeededStore
    /\ calls = 0
    /\ repos = {"users"}
    /\ kv = LeftoverEntries
    /\ sets = <<>>
    /\ faults = {}
    /\ cacheMode \in {"disabled", "nil"}
    /\ largeCfg = DefaultLargeValue
    /\ tagStyle = "foreignKey:UserID"
    /\ last = NoCall
    /\ trace = <<>>
    /\ failed = FALSE
    /\ payload = ""
    /\ clock = NoClock
    /\ inflight = NoInflight

NextStoreOnly ==
    \/ DoFindByID
    \/ DoFindAll
    \/ DoFindWhere
    \/ DoFirst
    \/ DoCount
    \/ DoCreate
    \/ DoUpdate
    \/ DoDelete
    \/ DoCreateBatch
    \/ DoUpdateBatch
    \/ DoPing

SpecStoreOnly == InitStoreOnly /\ [][NextStoreOnly]_vars

(***************************************************************************)
(* pkg/db: the singleton database manager.  The package keeps `instance`   *)
(* and `once`; goroutines call NewSingletonManager at the same time.  A    *)
(* call is the steps: enter once.Do (the first to enter runs the           *)
(* initialization, the others wait until it is over), and the test of      *)
(* instance that follows.  initErr is a variable of the call.              *)
(***************************************************************************)
\* the goroutines calling NewSingletonManager
MaxCallers == 2
Callers == 1..MaxCallers

\* the configurations handed in: two that connect, one that fails Validate,
\* one whose database is not reachable
SingletonConfigs == {"primary", "replica", "invalid", "unreachable"}

NoInstance == "nil"
ErrInvalidConfig == "invalid config"
ErrConnect == "failed to connect to database"
ErrSingletonPrefix == "singleton initialization failed (permanent until restart): "
ErrSingletonUnknown == "singleton initialization failed with unknown error (permanent until restart)"

\* db.NewManager: the manager built from the configuration, or the error
NewManager(config) ==
    IF config = "invalid" THEN [instance |-> NoInstance, err |-> ErrInvalidConfig]
    ELSE IF config = "unreachable" THEN [instance |-> NoInstance, err |-> ErrConnect]
    ELSE [instance |-> config, err |-> OK]

\* NewSingletonManager after once.Do: what the call returns
singletonResult(instance, initErr) ==
    IF instance = NoInstance
    THEN IF initErr # OK THEN [instance |-> NoInstance, err |-> ErrSingletonPrefix \o initErr]
         ELSE [instance |-> NoInstance, err |-> ErrSingletonUnknown]
    ELSE [instance |-> instance, err |-> OK]

IdleCaller == [pc |-> "idle", config |-> "", initErr |-> OK]

SingletonStep(s) ==
    /\ inflight' = s
    /\ UNCHANGED <<db, kv, sets, faults, cacheMode, largeCfg, tagStyle, last, trace, failed,
                   repos, payload, clock>>

\* a goroutine calls NewSingletonManager(config): var initErr error
CallSingleton ==
    \E c \in Callers, config \in SingletonConfigs :
        /\ inflight.callers[c].pc = "idle"
        /\ calls < MaxCalls
        /\ calls' = calls + 1
        /\ SingletonStep([inflight EXCEPT !.callers[c] =
                              [pc |-> "do", config |-> config, initErr |-> OK]])

\* once.Do by the first goroutine to arrive: it runs NewManager
OnceRuns ==
    \E c \in Callers :
        /\ inflight.callers[c].pc = "do"
        /\ inflight.once = "fresh"
        /\ UNCHANGED calls
        /\ SingletonStep([inflight EXCEPT !.once = "running", !.callers[c].pc = "init"])

\* instance, initErr = NewManager(config), and once.Do is over
Initialize ==
    \E c \in Callers :
        /\ inflight.callers[c].pc = "init"
        /\ UNCHANGED calls
        /\ LET Made(m) ==
                   SingletonStep([inflight EXCEPT !.once = "done",
                                                  !.instance = m.instance,
                                                  !.inits = @ + 1,
                                                  !.first = [config |-> inflight.callers[c].config,
                                                             err |-> m.err],
                                                  !.callers[c].pc = "test",
                                                  !.callers[c].initErr = m.err])
           IN  Made(NewManager(inflight.callers[c].config))

\* once.Do by a goroutine that finds the initialization over
OnceSkips ==
    \E c \in Callers :
        /\ inflight.callers[c].pc = "do"
        /\ inflight.once = "done"
        /\ UNCHANGED calls
        /\ SingletonStep([inflight EXCEPT !.callers[c].pc = "test"])

\* the test of instance, and the return
ReturnSingleton ==
    \E c \in Callers :
        /\ inflight.callers[c].pc = "test"
        /\ UNCHANGED calls
        /\ LET Returns(x) ==
                   SingletonStep([inflight EXCEPT
                       !.callers[c] = IdleCaller,
                       !.returned = Append(@, [caller |-> c,
                                               config |-> inflight.callers[c].config,
                                               instance |-> x.instance, err |-> x.err])])
           IN  Returns(singletonResult(inflight.instance, inflight.callers[c].initErr))

InitSingleton ==
    /\ db = SeededStore
    /\ calls = 0
    /\ repos = {}
    /\ kv = <<>>
    /\ sets = <<>>
    /\ faults = {}
    /\ cacheMode = "nil"
    /\ largeCfg = DefaultLargeValue
    /\ tagStyle = "foreignKey:UserID"
    /\ last = NoCall
    /\ trace = <<>>
    /\ failed = FALSE
    /\ payload = ""
    /\ clock = NoClock
    /\ inflight = [op |-> "singleton", instance |-> NoInstance, once |-> "fresh", inits |-> 0,
                   first |-> [config |-> "", err |-> OK],
                   callers |-> [c \in Callers |-> IdleCaller], returned |-> <<>>]

NextSingleton ==
    \/ CallSingleton
    \/ OnceRuns
    \/ Initialize
    \/ OnceSkips
    \/ ReturnSingleton

SpecSingleton == InitSingleton /\ [][NextSingleton]_vars

(***************************************************************************)
(* One client invalidates the dependencies of an entity while another      *)
(* stores values and links them.  InvalidateEntityDependencies is the      *)
(* steps: SMEMBERS of the dependency set, DeleteLarge of each member, DEL  *)
(* of the set; the stores of the other client run between them.            *)
(***************************************************************************)
\* the entity whose dependencies are invalidated
InvalidatedEntity == <<"users", "1">>

\* inflight.members: what SMEMBERS returned; during: the keys linked to the
\* entity since; after: a store ran after the invalidation returned
Invalidating(pc, members, during, after) ==
    [op |-> "invalidate", pc |-> pc, members |-> members, during |-> during, after |-> after]

LinkStep(r, inv) ==
    /\ kv' = r.kv
    /\ sets' = r.sets
    /\ trace' = r.tr
    /\ failed' = (failed \/ r.bad)
    /\ inflight' = inv
    /\ UNCHANGED <<db, faults, cacheMode, largeCfg, tagStyle, last, repos, payload, clock>>

\* InvalidateEntityDependencies: the members are read; with none it returns
InvalidateMembers ==
    /\ inflight.pc \in {"idle", "returned"}
    /\ calls < MaxCalls
    /\ calls' = calls + 1
    /\ LET Members(m) ==
               LinkStep(m.r, Invalidating(IF m.err # OK \/ m.val = {} THEN "returned"
                                          ELSE "delete", m.val, {}, FALSE))
       IN  Members(RedisSMembers(Backend, dependencyKey(InvalidatedEntity[1],
                                                        InvalidatedEntity[2]), 1))

\* the values of the members are deleted
InvalidateDelete ==
    /\ inflight.pc = "delete"
    /\ UNCHANGED calls
    /\ LinkStep(deleteDependents(Backend, inflight.members),
                [inflight EXCEPT !.pc = "clear"])

\* the set is deleted and the call returns nil
InvalidateClear ==
    /\ inflight.pc = "clear"
    /\ UNCHANGED calls
    /\ LinkStep(Swallowed(RedisDel(Backend, {dependencyKey(InvalidatedEntity[1],
                                                           InvalidatedEntity[2])}, 1)),
                [inflight EXCEPT !.pc = "returned"])

\* the invalidation as the other client's call leaves it
Meanwhile(key, deps) ==
    [inflight EXCEPT
        !.during = IF inflight.pc \in {"delete", "clear"}
                      /\ \E i \in DOMAIN deps : deps[i] = InvalidatedEntity
                   THEN @ \cup {key} ELSE @,
        !.after = @ \/ inflight.pc = "returned"]

\* the other client stores a value and links it
StoreLinked ==
    \E key \in DepKeys, deps \in DepLists :
        /\ calls < MaxCalls
        /\ calls' = calls + 1
        /\ LET Stored(s) == s.err = OK /\ LinkStep(s.r, Meanwhile(key, deps))
           IN  Stored(SetLargeWithDependencies(Backend, key, payload, deps))

\* the other client links a value it has stored
LinkStored ==
    \E key \in DepKeys, deps \in DepLists :
        /\ calls < MaxCalls
        /\ StoredValue(kv, key)
        /\ calls' = calls + 1
        /\ LET Linked(s) == s.err = OK /\ LinkStep(s.r, Meanwhile(key, deps))
           IN  Linked(AddMultipleDependencies(Backend, deps, key))

\* the cache after the stores of an earlier run
LinkedBefore ==
    {SetWithDependencies(EmptyBackend, key, "ab", <<InvalidatedEntity>>).r : key \in DepKeys}

InitLostLink ==
    /\ db = SeededStore
    /\ calls = 0
    /\ repos = {}
    /\ faults = {}
    /\ cacheMode = "enabled"
    /\ largeCfg = DefaultLargeValue
    /\ tagStyle = "foreignKey:UserID"
    /\ payload \in DepValues
    /\ \E r \in LinkedBefore : kv = r.kv /\ sets = r.sets
    /\ last = NoCall
    /\ trace = <<>>
    /\ failed = FALSE
    /\ clock = NoClock
    /\ inflight = Invalidating("idle", {}, {}, FALSE)

NextLostLink ==
    \/ InvalidateMembers
    \/ InvalidateDelete
    \/ InvalidateClear
    \/ StoreLinked
    \/ LinkStored

SpecLostLink == InitLostLink /\ [][NextLostLink]_vars

(***************************************************************************)
(* The program of the dependency interface on a backend that may begin to  *)
(* fail some of its commands.                                              *)
(***************************************************************************)
NextDepsDegraded ==
    \/ Degrade
    \/ DoSetLargeWithDependencies
    \/ DoAddDependency
    \/ DoInvalidateEntityDependencies
    \/ DoGetDependencies

SpecDepsDegraded == InitDeps /\ [][NextDepsDegraded]_vars

(***************************************************************************)
(* A program with a repository of the users of its store, beside a program *)
(* that keeps the users of another store in the same cache backend.        *)
(***************************************************************************)
\* the key a repository of the other store makes where this one makes key
keyOfOtherStore(key) ==
    cacheKeyPrefix \o cacheKeySeparator \o OtherDbName
        \o SubSeq(key, Len(cacheKeyPrefix \o cacheKeySeparator \o dbName) + 1, Len(key))

\* the query the other program has cached the result of
OtherStoreQuery == [kind |-> "string", field |-> "Name", arg |-> "B"]

OtherStoreKey == keyOfOtherStore(generateCacheKeyFromQuery("users", "find_where", OtherStoreQuery))

\* the cache after the FindWhere of the other program, whose user 1 is B
OtherStoreLinked ==
    SetLargeWithDependencies(EmptyBackend, OtherStoreKey,
                             marshalEntities("users", <<[ID |-> 1, Name |-> "B"]>>),
                             extractDependenciesFromEntities("users",
                                                             <<[ID |-> 1, Name |-> "B"]>>)).r

InitShared ==
    /\ db = SeededStore
    /\ calls = 0
    /\ repos = {"users"}
    /\ faults = {}
    /\ cacheMode = "enabled"
    /\ largeCfg = DefaultLargeValue
    /\ tagStyle = "foreignKey:UserID"
    /\ kv = OtherStoreLinked.kv
    /\ sets = OtherStoreLinked.sets
    /\ last = NoCall
    /\ trace = <<>>
    /\ failed = FALSE
    /\ payload = ""
    /\ clock = NoClock
    /\ inflight = NoInflight

NextShared ==
    \/ DoFindByID
    \/ DoFindWhere
    \/ DoCreate
    \/ DoUpdate
    \/ DoDelete

SpecShared == InitShared /\ [][NextShared]_vars

(***************************************************************************)
(* Chained query modifiers.  Limit returns a copy of the repository whose  *)
(* GORM handle carries the limit; the copy keeps the table, the database   *)
(* name and the cache manager, and its reads run the code of the           *)
(* repository on the modified handle.                                      *)
(***************************************************************************)
\* the limit of a handle no Limit was applied to
NoLimit == Nil

\* GenericRepository.Limit: the limit the handle of the derived repository
\* carries
Limit(limit) == IF limit < 0 THEN 0 ELSE limit

\* the rows the statement of a handle returns, in the order of the primary key
limitedRows(rows, limit) ==
    IF limit = NoLimit \/ limit >= Len(rows) THEN rows ELSE SubSeq(rows, 1, limit)

\* GenericRepository.FindAll of a repository whose handle carries the limit
FindAllChained(r, t, limit, dbFail) ==
    LET cacheKey == generateCacheKey(t, "find_all", "")
        Stored(entities, s) == Out(Swallowed(s), entities, 0, FALSE, s.err = OK, OK)
        Found(q, entities) ==
            IF hasRedis
            THEN Stored(entities, SetLargeValue(q, cacheKey, marshalEntities(t, entities)))
            ELSE Out(q, entities, 0, FALSE, FALSE, OK)
        Queried(q) ==
            IF dbFail = 1 THEN Out(q, <<>>, 0, FALSE, FALSE, DbError)
            ELSE Found(q, limitedRows(allRows(db, t), limit))
        Looked(g) ==
            IF g.err = OK THEN Out(g.r, g.val, 0, TRUE, FALSE, OK)
            ELSE IF ~IsKeyNotFound(g.err) THEN Queried(DbLogged(Dropped(g.r), "Find", t))
            ELSE Queried(DbLogged(g.r, "Find", t))
    IN  IF hasRedis THEN Looked(GetLargeValue(r, t, cacheKey, "entities"))
        ELSE Queried(DbLogged(r, "Find", t))

\* the limits a caller passes
Limits == 1..(MaxUserId + 1)

\* the modifier chain of the repository a read is issued on
Chain(limit) == [kind |-> "chain", field |-> "", arg |-> limit]

\* FindAll on the repository itself or on one derived through Limit
DoFindAllChained ==
    \E t \in repos, dbFail \in 0..1 : \E limit \in {NoLimit} \cup {Limit(l) : l \in Limits} :
        ReadDone(Call("FindAll", t, 0, Chain(limit), <<>>, dbFail),
                 FindAllChained(Backend, t, limit, dbFail))

InitChained ==
    /\ db \in CrowdedStores
    /\ calls = 0
    /\ repos = {"users"}
    /\ kv = <<>>
    /\ sets = <<>>
    /\ faults = {}
    /\ cacheMode = "enabled"
    /\ largeCfg = DefaultLargeValue
    /\ tagStyle = "foreignKey:UserID"
    /\ last = NoCall
    /\ trace = <<>>
    /\ failed = FALSE
    /\ payload = ""
    /\ clock = NoClock
    /\ inflight = NoInflight

NextChained ==
    \/ DoFindAllChained
    \/ DoUpdate
    \/ DoDelete

SpecChained == InitChained /\ [][NextChained]_vars

(***************************************************************************)
(* A program that stores plain keys and invalidates them by pattern, on a  *)
(* backend that may begin to fail some of its commands.                    *)
(***************************************************************************)
\* keys that the keyspace walk visits in different steps
ScanKeys == {"k1", "k22", "k333", "j1"}

ScanPatterns == {"k*", "k1", "*", "j*"}

ScanCall(op, pattern, err) == [op |-> op, pattern |-> pattern, err |-> err]

ScanDone(r, call) ==
    /\ calls < MaxCalls
    /\ calls' = calls + 1
    /\ kv' = r.kv
    /\ sets' = r.sets
    /\ trace' = r.tr
    /\ failed' = (failed \/ r.bad)
    /\ last' = call
    /\ UNCHANGED <<db, faults, cacheMode, largeCfg, tagStyle, repos, payload, clock, inflight>>

DoSet ==
    \E key \in ScanKeys :
        LET Stored(s) == ScanDone(s.r, ScanCall("Set", key, s.err))
        IN  Stored(Set(Backend, key, "ab"))

DoInvalidatePattern ==
    \E pattern \in ScanPatterns :
        LET Invalidated(i) == ScanDone(i.r, ScanCall("InvalidatePattern", pattern, i.err))
        IN  Invalidated(InvalidatePattern(Backend, pattern))

InitScan ==
    /\ db = SeededStore
    /\ calls = 0
    /\ repos = {}
    /\ kv \in {[k \in keys |-> "ab"] : keys \in {{}, ScanKeys}}
    /\ sets = <<>>
    /\ faults = {}
    /\ cacheMode = "enabled"
    /\ largeCfg = DefaultLargeValue
    /\ tagStyle = "foreignKey:UserID"
    /\ last = ScanCall("none", "", OK)
    /\ trace = <<>>
    /\ failed = FALSE
    /\ payload = ""
    /\ clock = NoClock
    /\ inflight = NoInflight

NextScan ==
    \/ Degrade
    \/ DoSet
    \/ DoInvalidatePattern

SpecScan == InitScan /\ [][NextScan]_vars

(***************************************************************************)
(* A program that reads through its repositories and calls the manager's   *)
(* InvalidateRelationships for an entity, on a backend that may begin to   *)
(* fail some of its commands.                                              *)
(***************************************************************************)
\* config.Invalidation.KeyPatterns: the default, which has none, and a
\* pattern for the find_by_id entry of a user
KeyPatternConfigs ==
    {<<>>, "users" :> <<generateCacheKey("users", "find_by_id", "{id}")>>}

\* the configuration a call ran under
Configured(keyPatterns) == [kind |-> "config", field |-> "", arg |-> keyPatterns]

DoInvalidateRelationships ==
    \E t \in repos : \E id \in Ids(t) : \E keyPatterns \in KeyPatternConfigs :
        LET Done(x) ==
                /\ calls < MaxCalls
                /\ calls' = calls + 1
                /\ kv' = x.r.kv
                /\ sets' = x.r.sets
                /\ trace' = x.r.tr
                /\ failed' = (failed \/ x.r.bad)
                /\ last' = Returned(Call("InvalidateRelationships", t, id,
                                         Configured(keyPatterns), <<>>, 0),
                                    <<>>, 0, FALSE, FALSE, FALSE, x.err, x.r.dropped)
                /\ UNCHANGED <<db, faults, cacheMode, largeCfg, tagStyle, repos, payload, clock,
                               inflight>>
        IN  Done(InvalidateRelationships(Backend, keyPatterns, t, FmtV(id)))

InitRelationships ==
    /\ db = SeededStore
    /\ calls = 0
    /\ repos = Tables
    /\ kv = <<>>
    /\ sets = <<>>
    /\ faults = {}
    /\ cacheMode = "enabled"
    /\ largeCfg = DefaultLargeValue
    /\ tagStyle = "foreignKey:UserID"
    /\ last = NoCall
    /\ trace = <<>>
    /\ failed = FALSE
    /\ payload = ""
    /\ clock = NoClock
    /\ inflight = NoInflight

NextRelationships ==
    \/ Degrade
    \/ DoFindByID
    \/ DoFindAll
    \/ DoInvalidateRelationships

SpecRelationships == InitRelationships /\ [][NextRelationships]_vars

(***************************************************************************)
(* What the calls are observed by.                                         *)
(***************************************************************************)
Reads == {"FindByID", "FindAll", "FindWhere", "First", "Count"}
Writes == {"Create", "Update", "Delete", "CreateBatch", "UpdateBatch"}

\* the rows the store holds for the query of a read call
StoreRows(store, call) ==
    CASE call.op = "FindByID" ->
            IF call.id \in DOMAIN store[call.table] THEN <<store[call.table][call.id]>>
            ELSE <<>>
      [] call.op = "FindAll" -> allRows(store, call.table)
      [] call.op = "FindWhere" -> rowsWhere(store, call.table, call.query)
      [] call.op = "First" ->
            IF rowsWhere(store, call.table, call.query) = <<>> THEN <<>>
            ELSE <<Head(rowsWhere(store, call.table, call.query))>>
      [] OTHER -> <<>>

\* the count the store holds for a Count call
StoreCount(store, call) ==
    IF call.op = "Count" THEN Cardinality(DOMAIN store[call.table]) ELSE 0

\* the error a write call gets from the store, OK when its statements succeed
StoreError(store, call) ==
    CASE call.op = "Create" ->
            IF call.dbFail = 1 \/ duplicateKey(store, call.table, call.entities)
            THEN DbError ELSE OK
      [] call.op = "Update" -> IF call.dbFail = 1 THEN DbError ELSE OK
      [] call.op = "Delete" ->
            IF call.dbFail = 1 THEN DbFindError
            ELSE IF call.id \in DOMAIN store[call.table] /\ call.dbFail = 2 THEN DbError
            ELSE OK
      [] call.op = "CreateBatch" ->
            IF /\ call.entities # <<>>
               /\ call.dbFail = 1 \/ duplicateKey(store, call.table, call.entities)
            THEN BatchCreateError ELSE OK
      [] call.op = "UpdateBatch" ->
            IF call.entities # <<>> /\ call.dbFail = 1 THEN BatchUpdateError ELSE OK
      [] OTHER -> OK

\* the cache commands among the commands of a call
CacheCommands(tr) == SelectSeq(tr, LAMBDA c : c.sys = "redis")

\* the store statements among the commands of a call
StoreCommands(tr) == SelectSeq(tr, LAMBDA c : c.sys = "db")

\* a cached value is held under the key: its base entry, or the metadata
\* entry of a large value
Cached(keys, key) == key \in keys \/ metadataKey(key) \in keys

(***************************************************************************)
(* C1  Write-then-read consistency.  With a working cache, after           *)
(* Update(entity) returns without error the key                            *)
(* sql4go:<db>:<table>:find_by_id:<id> is absent from the cache, and a     *)
(* FindByID(id) that comes next reports cacheHit = false and returns the   *)
(* row the store holds after the update.                                   *)
(***************************************************************************)
WriteThenRead ==
    [][/\ (last'.op = "Update" /\ last'.err = OK /\ ~failed')
            => generateCacheKey(last'.table, "find_by_id", FmtV(last'.id)) \notin DOMAIN kv'
       /\ (/\ last.op = "Update" /\ last.err = OK /\ ~failed'
           /\ last'.op = "FindByID" /\ last'.table = last.table /\ last'.id = last.id
           /\ last'.dbFail = 0)
            => /\ ~last'.hit
               /\ last'.err = OK
               /\ last'.rows = <<db'[last.table][last.id]>>
               /\ last'.rows = last.entities]_vars

\* an Update has removed the find_by_id entry that was cached for its entity
WriteThenReadWitness ==
    /\ last.op = "Update" /\ last.err = OK /\ ~failed
    /\ \E i \in 1..Len(trace) :
          /\ trace[i].cmd = "DEL"
          /\ generateCacheKey(last.table, "find_by_id", FmtV(last.id)) \in trace[i].keys
    /\ generateCacheKey(last.table, "find_by_id", FmtV(last.id)) \notin DOMAIN kv

(***************************************************************************)
(* C2  Cache coherence.  In every run of Create, Update, Delete,           *)
(* CreateBatch, UpdateBatch, FindByID, FindAll, FindWhere, First and Count *)
(* on one repository, with a working cache and no expiry, a read that      *)
(* reports cacheHit = true returns exactly what the store holds for its    *)
(* query at that moment.                                                   *)
(***************************************************************************)
CacheCoherence ==
    (last.op \in Reads /\ last.hit /\ ~failed)
        => /\ last.err = OK
           /\ last.rows = StoreRows(db, last)
           /\ last.n = StoreCount(db, last)

\* a list read is answered from the cache after a write has changed the table
CacheCoherenceWitness ==
    /\ last.op = "FindAll" /\ last.hit /\ ~failed
    /\ StoreCommands(trace) = <<>>
    /\ db # SeededStore
    /\ last.rows = allRows(db, last.table)
    /\ last.rows # <<>>

(***************************************************************************)
(* C4  A failed store write invalidates nothing.  When the store statement *)
(* of Create, Update, Delete, CreateBatch or UpdateBatch fails, the call   *)
(* returns the store's error, issues no cache command, and leaves the      *)
(* cache entries and every dependency set as they were.                    *)
(***************************************************************************)
FailedWriteKeepsCache ==
    [][(last'.op \in Writes /\ StoreError(db, last') # OK)
         => /\ last'.err = StoreError(db, last')
            /\ ~last'.inval
            /\ CacheCommands(trace') = <<>>
            /\ kv' = kv
            /\ sets' = sets
            /\ db' = db]_vars

\* a write has failed in the store while the cache held entries and a
\* dependency set
FailedWriteKeepsCacheWitness ==
    /\ last.op \in Writes /\ last.err \in {DbError, BatchCreateError, BatchUpdateError}
    /\ DOMAIN kv # {}
    /\ DOMAIN sets # {}
    /\ CacheCommands(trace) = <<>>

(***************************************************************************)
(* C6  Queries given as a *gorm.DB handle bypass the cache.  FindWhere and *)
(* First called with such a query run against the store and return its    *)
(* result, issue no cache command of any kind, and report cacheHit and     *)
(* cacheStored false.                                                      *)
(***************************************************************************)
HandleQueryBypassesCache ==
    [][(last'.op \in {"FindWhere", "First"} /\ last'.query.kind = "gormDB")
         => /\ CacheCommands(trace') = <<>>
            /\ Len(StoreCommands(trace')) = 1
            /\ ~last'.hit
            /\ ~last'.stored
            /\ kv' = kv
            /\ sets' = sets
            /\ last'.dbFail = 0 => (last'.err = OK /\ last'.rows = StoreRows(db, last'))]_vars

\* a FindWhere with a handle has returned rows while the same condition is
\* cached under its string form
HandleQueryBypassesCacheWitness ==
    /\ last.op = "FindWhere" /\ last.query.kind = "gormDB"
    /\ last.err = OK
    /\ last.rows # <<>>
    /\ Cached(DOMAIN kv, generateCacheKeyFromQuery(last.table, "find_where",
                                                   [last.query EXCEPT !.kind = "string"]))

DeleteOfAbsentIsNoop ==
    [][(/\ last'.op = "Delete"
        /\ last'.dbFail # 1
        /\ last'.id \notin DOMAIN db[last'.table])
         => /\ last'.err = OK
            /\ ~last'.inval
            /\ StoreCommands(trace') = trace'
            /\ \A i \in 1..Len(trace') : trace'[i].cmd = "First"
            /\ kv' = kv
            /\ sets' = sets
            /\ db' = db]_vars

\* a Delete has found nothing to delete while the cache held entries
DeleteOfAbsentIsNoopWitness ==
    /\ last.op = "Delete" /\ last.err = OK /\ ~last.inval /\ last.dbFail # 1
    /\ last.id \notin DOMAIN db[last.table]
    /\ Len(trace) = 1
    /\ DOMAIN kv # {}

(***************************************************************************)
(* C3  Cross-collection invalidation.  If FindWhere on collection A has    *)
(* cached a result containing an entity whose relationships name the       *)
(* identity (B, b), then after a successful Update or Delete of b through  *)
(* the repository of B (working cache) the FindWhere key of A is absent    *)
(* from the cache and the dependency set of (B, b) is empty.               *)
(***************************************************************************)
\* the relationships of some entity of the rows name the identity (t, id)
RelationshipsName(rows, a, t, id) ==
    \E i \in 1..Len(rows) :
        \E j \in 1..Len(relationshipsOf(a, rows[i])) :
            /\ relationshipsOf(a, rows[i])[j].EntityType = t
            /\ relationshipsOf(a, rows[i])[j].EntityID = id

Parents(t, entity) ==
    IF t = "orders" /\ entity.UserID # 0 THEN {<<"users", entity.UserID>>} ELSE {}

DeleteInvalidatesParent ==
    [][(last'.op = "Delete" /\ last'.err = OK /\ last'.inval /\ ~failed')
         => /\ \A k \in DOMAIN kv' \cup DOMAIN sets' :
                  ~GlobMatch("sql4go:" \o dbName \o ":" \o last'.table \o ":*", k)
            /\ \A p \in Parents(last'.table, db[last'.table][last'.id]) :
                  /\ dependencyKey(p[1], FmtV(p[2])) \notin DOMAIN sets'
                  /\ dependencyKey(p[1], FmtV(p[2])) \in DOMAIN sets
                        => \A k \in sets[dependencyKey(p[1], FmtV(p[2]))] :
                              ~Cached(DOMAIN kv', k)]_vars

\* Order 7 of User 1 has been deleted, the invalidation has asked for the
\* dependents of (users, 7), and the dependency set of (users, 1) and the
\* keys in it are still there
DeleteMissesParent ==
    /\ last.op = "Delete" /\ last.table = "orders" /\ last.id = OrderId
    /\ last.err = OK /\ last.inval /\ ~failed
    /\ OrderId \notin DOMAIN db["orders"]
    /\ \E i \in 1..Len(trace) :
          /\ trace[i].cmd = "SMEMBERS"
          /\ trace[i].keys = {dependencyKey("users", FmtV(OrderId))}
    /\ dependencyKey("users", "1") \in DOMAIN sets
    /\ \E k \in sets[dependencyKey("users", "1")] : Cached(DOMAIN kv, k)

(***************************************************************************)
(* C5  Cache errors are swallowed.  A cache error during the lookup or the *)
(* store step of a read, or during the invalidation of a write, is not     *)
(* returned: the read still queries the store and returns its result with  *)
(* a nil error, the write reports the outcome of the store; no call fails  *)
(* unless its store statement fails.                                       *)
(***************************************************************************)
CacheErrorsAreSwallowed ==
    [][calls' # calls =>
        /\ (last'.op \in Reads /\ last'.dropped)
             => /\ Len(StoreCommands(trace')) = 1
                /\ ~last'.hit
                /\ last'.dbFail = 0
                     => /\ last'.err = OK
                        /\ last'.rows = StoreRows(db, last')
                        /\ last'.n = StoreCount(db, last')
        /\ (last'.op \in Writes /\ last'.dropped)
             => /\ last'.err = OK
                /\ StoreError(db, last') = OK
                /\ StoreCommands(trace') # <<>>
        /\ last'.op \in Reads => (last'.err # OK <=> (last'.dbFail = 1 /\ ~last'.hit))
        /\ last'.op \in Reads /\ last'.err # OK => last'.err = DbError
        /\ last'.op \in Writes => last'.err = StoreError(db, last')
        /\ db' # db => (last'.op \in Writes /\ last'.err = OK)]_vars

\* a list read whose cache lookup failed has returned the rows of the store
CacheErrorsAreSwallowedWitness ==
    /\ last.op = "FindWhere" /\ last.dropped /\ failed
    /\ "GET" \in faults
    /\ last.err = OK
    /\ last.rows # <<>>
    /\ last.rows = StoreRows(db, last)
    /\ DOMAIN kv # {}

(***************************************************************************)
(* C10  Round trip of large values.  For every payload p with              *)
(* 0 <= len(p) <= MaxValueSize and a key that holds no base, metadata or   *)
(* chunk entry, SetLarge(key, p) succeeds and the GetLarge(key) that       *)
(* follows returns exactly p, whether p is stored compressed or not,       *)
(* chunked or not.                                                         *)
(***************************************************************************)
LargeRoundTrip ==
    /\ (last.op = "SetLarge" /\ last.fresh /\ Len(last.value) <= MaxValueSize)
         => last.err = OK
    /\ (/\ last.op = "GetLarge"
        /\ last.prev.op = "SetLarge" /\ last.prev.key = last.key
        /\ last.prev.fresh
        /\ Len(last.prev.value) <= MaxValueSize)
         => /\ last.err = OK
            /\ last.value = last.prev.value
            /\ last.value = payload

\* a payload of the greatest size, stored compressed and in chunks under an
\* unused key, has been read back
LargeRoundTripWitness ==
    /\ last.op = "GetLarge" /\ last.err = OK
    /\ last.prev.op = "SetLarge" /\ last.prev.fresh /\ last.prev.err = OK
    /\ Len(payload) = MaxValueSize
    /\ last.value = payload
    /\ metadataKey(LargeKey) \in DOMAIN kv
    /\ kv[metadataKey(LargeKey)] = "chunked:true:2"
    /\ LargeKey \notin DOMAIN kv

(***************************************************************************)
(* C11  Size ceiling.  SetLarge of a value of exactly MaxValueSize bytes   *)
(* succeeds.  SetLarge of a value one byte longer returns the              *)
(* value-too-large error, issues no command and leaves every key (base,    *)
(* metadata, chunks) as it was.                                            *)
(***************************************************************************)
SizeCeiling ==
    [][(calls' # calls /\ last'.op = "SetLarge") =>
          /\ Len(payload) = MaxValueSize => last'.err = OK
          /\ Len(payload) = MaxValueSize + 1 =>
                /\ last'.err = ErrTooLarge
                /\ trace' = <<>>
                /\ kv' = kv
                /\ sets' = sets]_vars

\* a value one byte over the ceiling was refused while the key held an
\* earlier value
SizeCeilingWitness ==
    /\ last.op = "SetLarge"
    /\ Len(last.value) = MaxValueSize + 1
    /\ last.err = ErrTooLarge
    /\ trace = <<>>
    /\ LargeKey \in DOMAIN kv

(***************************************************************************)
(* C12  Chunking is decided on the compressed payload.  A value longer     *)
(* than ChunkSize (and than CompressThreshold, with compression on) whose  *)
(* compressed form is at most ChunkSize long is stored under an unused key *)
(* as one base entry holding the compressed form plus the metadata record  *)
(* single:true:1, with no chunk entry; the GetLarge that follows returns   *)
(* the original value.                                                     *)
(***************************************************************************)
CompressesBelowChunkSize(value) ==
    /\ largeCfg.EnableCompression
    /\ Len(value) <= MaxValueSize
    /\ Len(value) > ChunkSize
    /\ Len(value) > CompressThreshold
    /\ Len(compressData(value)) <= ChunkSize

ChunkingAfterCompression ==
    /\ (/\ last.op = "SetLarge" /\ last.fresh
        /\ CompressesBelowChunkSize(last.value))
         => /\ last.err = OK
            /\ DOMAIN kv = {LargeKey, metadataKey(LargeKey)}
            /\ kv[LargeKey] = compressData(last.value)
            /\ kv[metadataKey(LargeKey)] = "single:true:1"
    /\ (/\ last.op = "GetLarge"
        /\ last.prev.op = "SetLarge" /\ last.prev.fresh
        /\ CompressesBelowChunkSize(last.prev.value))
         => /\ last.err = OK
            /\ last.value = last.prev.value

\* with chunking on, a value of the greatest size that compresses to at most
\* one chunk was stored unchunked and read back
ChunkingAfterCompressionWitness ==
    /\ largeCfg.EnableChunking
    /\ last.op = "GetLarge" /\ last.err = OK
    /\ last.prev.op = "SetLarge" /\ last.prev.fresh
    /\ CompressesBelowChunkSize(last.prev.value)
    /\ Len(last.value) = MaxValueSize
    /\ last.value = payload
    /\ kv[metadataKey(LargeKey)] = "single:true:1"

(***************************************************************************)
(* C13  Compression is opportunistic and recorded.  After a SetLarge under *)
(* an unused key, the stored bytes are the compressed form and the         *)
(* metadata marks them compressed exactly when compression is enabled, the *)
(* value is longer than CompressThreshold and its compressed form is       *)
(* strictly shorter than the value; otherwise the stored bytes are the     *)
(* value itself, no metadata marks them compressed, and the reader takes   *)
(* them as uncompressed.                                                   *)
(***************************************************************************)
\* what the readers of GetLarge find under the key: [r, err, val, compressed]
StoredForm ==
    LET Read(c) ==
            IF c.val THEN getChunked(c.r, LargeKey) ELSE getWithMetadata(c.r, LargeKey)
    IN  Read(isChunkedValue(Backend, LargeKey))

WorthCompressing(value) ==
    /\ largeCfg.EnableCompression
    /\ Len(value) > CompressThreshold
    /\ Len(compressData(value)) < Len(value)

MarkedCompressed ==
    /\ metadataKey(LargeKey) \in DOMAIN kv
    /\ Len(Split(kv[metadataKey(LargeKey)], ":")) = 3
    /\ Split(kv[metadataKey(LargeKey)], ":")[2] = "true"

WellFormedMetadata(m) ==
    LET parts == Split(m, ":")
    IN  /\ Len(parts) = 3
        /\ parts[1] \in {"single", "chunked"}
        /\ parts[2] \in {"true", "false"}
        /\ IsNumber(parts[3])

ChunkedMetadata(m) == WellFormedMetadata(m) /\ Split(m, ":")[1] = "chunked"

ChunkCountOf(m) == Atoi(Split(m, ":")[3])

\* the chunks i..n-1 of the key, one after the other
RECURSIVE ChunksInOrder(_, _, _)
ChunksInOrder(keys, i, n) ==
    IF i >= n THEN ""
    ELSE keys[chunkKey(LargeKey, i)] \o ChunksInOrder(keys, i + 1, n)

ChunkMissing(keys) ==
    /\ metadataKey(LargeKey) \in DOMAIN keys
    /\ ChunkedMetadata(keys[metadataKey(LargeKey)])
    /\ \E i \in 0..(ChunkCountOf(keys[metadataKey(LargeKey)]) - 1) :
            chunkKey(LargeKey, i) \notin DOMAIN keys

MetadataMalformed(keys) ==
    /\ metadataKey(LargeKey) \in DOMAIN keys
    /\ ~WellFormedMetadata(keys[metadataKey(LargeKey)])

\* every chunk is there, the metadata marks the value compressed, and the
\* chunks together are not a compressed stream
ChunksDoNotDecompress(keys) ==
    /\ metadataKey(LargeKey) \in DOMAIN keys
    /\ ChunkedMetadata(keys[metadataKey(LargeKey)])
    /\ ~ChunkMissing(keys)
    /\ Split(keys[metadataKey(LargeKey)], ":")[2] = "true"
    /\ decompressData(ChunksInOrder(keys, 0,
                          ChunkCountOf(keys[metadataKey(LargeKey)]))).err # OK

ReadInOrder(keys, value) ==
    LET m == keys[metadataKey(LargeKey)]
        joined == ChunksInOrder(keys, 0, ChunkCountOf(m))
    IN  value = IF Split(m, ":")[2] = "true" THEN decompressData(joined).val ELSE joined

NoPartialData ==
    [][(calls' # calls /\ last'.op = "GetLarge") =>
          /\ (ChunkMissing(kv) \/ MetadataMalformed(kv) \/ ChunksDoNotDecompress(kv))
                => (last'.err # OK /\ last'.value = "")
          /\ (/\ last'.err = OK
              /\ metadataKey(LargeKey) \in DOMAIN kv
              /\ ChunkedMetadata(kv[metadataKey(LargeKey)]))
                => ReadInOrder(kv, last'.value)]_vars

\* GetLarge returned without an error although the metadata of the key
\* carries a negative chunk count
MalformedMetadataAccepted ==
    /\ last.op = "GetLarge"
    /\ last.err = OK
    /\ last.value = ""
    /\ MetadataMalformed(kv)
    /\ last.prev.op = "damage"

(***************************************************************************)
(* C15  DeleteLarge removes the whole stored value.  After DeleteLarge of  *)
(* a key whose value SetLarge has just stored returns nil, the base key,   *)
(* the metadata key and every chunk key 0..chunkCount-1 are absent, and    *)
(* the call issued exactly one DEL, which names every one of those keys    *)
(* that existed.                                                           *)
(***************************************************************************)
\* the base key, the metadata key and the chunk keys the metadata counts
StoredKeys(keys) ==
    {LargeKey, metadataKey(LargeKey)}
        \cup (IF /\ metadataKey(LargeKey) \in DOMAIN keys
                 /\ ChunkedMetadata(keys[metadataKey(LargeKey)])
              THEN {chunkKey(LargeKey, i) :
                        i \in 0..(ChunkCountOf(keys[metadataKey(LargeKey)]) - 1)}
              ELSE {})

Deletes(tr) == {i \in 1..Len(tr) : tr[i].cmd = "DEL"}

DeleteLargeRemovesAll ==
    [][(/\ calls' # calls
        /\ last.op = "SetLarge" /\ last.err = OK
        /\ last'.op = "DeleteLarge" /\ last'.err = OK) =>
          /\ StoredKeys(kv) \cap DOMAIN kv' = {}
          /\ Cardinality(Deletes(trace')) = 1
          /\ \A i \in Deletes(trace') :
                (StoredKeys(kv) \cap DOMAIN kv) \subseteq trace'[i].keys]_vars

\* a value stored in two chunks was deleted by one DEL of four keys
DeleteLargeRemovesAllWitness ==
    /\ last.op = "DeleteLarge" /\ last.err = OK
    /\ last.prev.op = "SetLarge" /\ last.prev.err = OK
    /\ kv = <<>>
    /\ Cardinality(Deletes(trace)) = 1
    /\ \E i \in Deletes(trace) :
            trace[i].keys = {LargeKey, metadataKey(LargeKey),
                             chunkKey(LargeKey, 0), chunkKey(LargeKey, 1)}

(***************************************************************************)
(* C16  Derived keys cannot collide with a caller's key.  For two          *)
(* different base keys that a caller passes to the large-value calls,      *)
(* neither is the metadata key or a chunk key of the other.                *)
(***************************************************************************)
DerivedFrom(base, key) ==
    \/ key = metadataKey(base)
    \/ /\ HasPrefix(key, base \o cacheChunkPrefix \o ":")
       /\ IsNumber(SubSeq(key, Len(base \o cacheChunkPrefix) + 2, Len(key)))

DerivedKeysNeverCollide ==
    (/\ last.op \in {"SetLarge", "GetLarge"}
     /\ last.prev.op \in {"SetLarge", "GetLarge"}
     /\ last.key # last.prev.key)
        => /\ ~DerivedFrom(last.prev.key, last.key)
           /\ ~DerivedFrom(last.key, last.prev.key)

\* the value of a key was stored and is there, and GetLarge of the key fails:
\* the caller's SetLarge under another key has replaced its metadata record
DerivedKeyOverwritten ==
    /\ last.op = "GetLarge" /\ last.key = LargeKey
    /\ last.err = ErrInvalidMeta
    /\ last.prev.op = "SetLarge" /\ last.prev.err = OK
    /\ last.prev.key = metadataKey(LargeKey)
    /\ LargeKey \in DOMAIN kv
    /\ kv[LargeKey] = compressData(payload)

(***************************************************************************)
(* C17: every link operation (AddDependency, AddMultipleDependencies,      *)
(* SetWithDependencies, and SetLargeWithDependencies through               *)
(* AddMultipleDependencies) that returns nil leaves each dependency set it *)
(* named with an expiry time of now + 2 x DefaultTTL; and as a consequence *)
(* the set a stored value was linked into is present, and expires no       *)
(* earlier than the value, for as long as the value is stored.             *)
(***************************************************************************)
LinkOperations ==
    {"AddDependency", "AddMultipleDependencies", "SetWithDependencies",
     "SetLargeWithDependencies"}

\* the expiry time of the value stored under the key
ValueExpiry(c, key) ==
    IF key \in DOMAIN c.exp THEN c.exp[key] ELSE c.exp[metadataKey(key)]

\* the set of every link outlives the value
SetsOutliveValues(c, dsets) ==
    \A l \in c.links :
        /\ l[1] \in DOMAIN dsets
        /\ l[1] \in DOMAIN c.exp
        /\ c.exp[l[1]] >= ValueExpiry(c, l[2])

SetOfCall(call) == dependencyKey(call.deps[1][1], call.deps[1][2])

InvalidationIsIdempotent ==
    [][/\ (calls' # calls /\ last'.op = "InvalidateEntityDependencies") =>
            /\ last'.err = OK
            /\ SetOfCall(last') \notin DOMAIN sets'
            /\ SetOfCall(last') \notin DOMAIN sets => (kv' = kv /\ sets' = sets)
            /\ (last.op = last'.op /\ last.deps = last'.deps) => (kv' = kv /\ sets' = sets)
       /\ (calls' # calls /\ last'.op = "GetDependencies"
             /\ SetOfCall(last') \notin DOMAIN sets) =>
            (last'.err = OK /\ last'.val = {} /\ kv' = kv /\ sets' = sets)]_vars

\* the second of two invalidations of one identity, with no time passed
\* since the first call of the run, finds nothing to do while the set of
\* another identity is there
InvalidationIsIdempotentWitness ==
    /\ last.op = "InvalidateEntityDependencies"
    /\ last.prev.op = "InvalidateEntityDependencies"
    /\ last.deps = last.prev.deps
    /\ last.err = OK
    /\ last.prev.err = OK
    /\ Len(trace) = 1
    /\ trace[1].cmd = "SMEMBERS"
    /\ clock.now = 0
    /\ sets # <<>>

(***************************************************************************)
(* C19: invalidating one identity leaves the dependency set of every other *)
(* identity, of the same collection or another, as it was: its members and *)
(* its expiry time.                                                        *)
(***************************************************************************)
OtherSetsUntouched ==
    [][(calls' # calls /\ last'.op = "InvalidateEntityDependencies") =>
            \A s \in DOMAIN sets \ {SetOfCall(last')} :
                /\ s \in DOMAIN sets'
                /\ sets'[s] = sets[s]
                /\ clock'.exp[s] = clock.exp[s]]_vars

\* the invalidation deleted a key that the set of another identity lists:
\* that set still lists it
OtherSetsUntouchedWitness ==
    /\ last.op = "InvalidateEntityDependencies"
    /\ last.err = OK
    /\ \E s \in DOMAIN sets : \E i \in DOMAIN trace :
            /\ s # SetOfCall(last)
            /\ trace[i].cmd = "DEL"
            /\ trace[i].keys \cap sets[s] # {}
            /\ \A k \in trace[i].keys \cap sets[s] : ~StoredValue(kv, k)

(***************************************************************************)
(* C20: the invalidation after a successful write goes on after an error.  *)
(* Whether or not the invalidation of the own namespace (the SCAN), of the *)
(* own identity or of a related identity fails, the write returns nil, the *)
(* namespace and the own identity are attempted, and every related         *)
(* identity with a non-nil id receives one invalidation attempt (the       *)
(* SMEMBERS of its dependency set); one without an id receives none.       *)
(***************************************************************************)
\* the entity the write invalidated for
WrittenEntity(store, call) ==
    IF call.op = "Delete" THEN store[call.table][call.id] ELSE call.entities[1]

\* the dependency sets whose invalidation the commands tr attempted, in order
RECURSIVE Attempted(_)
Attempted(tr) ==
    IF tr = <<>> THEN <<>>
    ELSE (IF Head(tr).sys = "redis" /\ Head(tr).cmd = "SMEMBERS"
          THEN <<CHOOSE k \in Head(tr).keys : TRUE>> ELSE <<>>) \o Attempted(Tail(tr))

\* the dependency sets of the entity and of its related entities with an id
Due(t, entity) ==
    <<dependencyKey(t, FmtV(GetPrimaryKeyValue(entity)))>>
        \o [i \in DOMAIN relatedDependencies(relationshipsOf(t, entity)) |->
               dependencyKey(relatedDependencies(relationshipsOf(t, entity))[i][1],
                             relatedDependencies(relationshipsOf(t, entity))[i][2])]

InvalidationContinuesOnError ==
    [][(calls' # calls /\ last'.op \in Writes /\ last'.inval) =>
            /\ last'.err = OK
            /\ \E i \in DOMAIN trace' : trace'[i].cmd = "SCAN"
            /\ Attempted(trace') = Due(last'.table, WrittenEntity(db, last'))]_vars

\* every SMEMBERS fails: the invalidation of the own identity and of the
\* first related entity failed, and the second related entity, a different
\* one, was attempted all the same
InvalidationContinuesOnErrorWitness ==
    /\ last.op = "Update"
    /\ last.inval
    /\ last.err = OK
    /\ last.dropped
    /\ "SMEMBERS" \in faults
    /\ Len(last.entities[1].Relationships) = 2
    /\ Len(Attempted(trace)) = 3
    /\ Attempted(trace)[2] # Attempted(trace)[3]
    /\ sets # <<>>

(***************************************************************************)
(* C21: every read that finds a result in the store and caches it links    *)
(* the dependencies: after FindByID, FindAll, FindWhere or First has       *)
(* stored a value under its cache key, the key is a member of the          *)
(* dependency set of every entity of the result.                           *)
(***************************************************************************)
\* the cache key of a read call
KeyOfRead(call) ==
    CASE call.op = "FindByID" -> generateCacheKey(call.table, "find_by_id", FmtV(call.id))
      [] call.op = "FindAll" -> generateCacheKey(call.table, "find_all", "")
      [] call.op = "FindWhere" -> generateCacheKeyFromQuery(call.table, "find_where", call.query)
      [] call.op = "First" -> generateCacheKeyFromQuery(call.table, "first", call.query)

\* the key is linked to every entity of the rows
LinkedToRows(dsets, key, t, rows) ==
    \A i \in DOMAIN rows :
        /\ dependencyKey(t, FmtV(GetPrimaryKeyValue(rows[i]))) \in DOMAIN dsets
        /\ key \in dsets[dependencyKey(t, FmtV(GetPrimaryKeyValue(rows[i])))]

CachingReads == {"FindByID", "FindAll", "FindWhere", "First"}

ReadsLinkDependencies ==
    (last.op \in CachingReads /\ last.stored /\ last.rows # <<>>)
        => LinkedToRows(sets, KeyOfRead(last), last.table, last.rows)

\* FindByID has stored the entity it found, and the entity has no
\* dependency set
ReadStoredUnlinked ==
    /\ last.op = "FindByID"
    /\ last.stored
    /\ last.err = OK
    /\ Len(last.rows) = 1
    /\ KeyOfRead(last) \in DOMAIN kv
    /\ dependencyKey(last.table, FmtV(last.id)) \notin DOMAIN sets

(***************************************************************************)
(* C22: storing a value together with its dependencies                     *)
(* (SetWithDependencies, SetLargeWithDependencies) is atomic: at no moment *)
(* that another process can observe, and in no state that a call ended by  *)
(* a crash or a cancellation leaves, is the value of the call readable     *)
(* under its key while the key is missing from the dependency set of one   *)
(* of its entities.                                                        *)
(***************************************************************************)
\* the key is a member of the dependency set of every identity
LinkedTo(dsets, key, deps) ==
    \A d \in Range(deps) :
        /\ dependencyKey(d[1], d[2]) \in DOMAIN dsets
        /\ key \in dsets[dependencyKey(d[1], d[2])]

\* the value of the call in progress can be read under its key
ValueReadable ==
    /\ inflight.op # "none"
    /\ inflight.at > 0
    /\ GetLarge(Backend, inflight.key).err = OK
    /\ GetLarge(Backend, inflight.key).val = inflight.value

StoreAndLinkAtomic ==
    ValueReadable => LinkedTo(sets, inflight.key, inflight.deps)

\* SetLargeWithDependencies ended after its SetLarge: the value stays
\* readable, no dependency set names its key, and another client has seen
\* the empty set
StoredAndNeverLinked ==
    /\ inflight.op = "SetLargeWithDependencies"
    /\ inflight.cut
    /\ ValueReadable
    /\ \A d \in Range(inflight.deps) : dependencyKey(d[1], d[2]) \notin DOMAIN sets
    /\ last.op = "GetDependencies"
    /\ last.deps[1] \in Range(inflight.deps)
    /\ last.err = OK
    /\ last.val = {}

(***************************************************************************)
(* C23: a chunked store is applied as one atomic batch: whenever the       *)
(* metadata entry of a chunked value is present, all of the chunkCount     *)
(* chunk keys it announces are present.                                    *)
(***************************************************************************)
ChunkedStoreAtomic ==
    \A key \in DepKeys :
        (/\ metadataKey(key) \in DOMAIN kv
         /\ WellFormedMetadata(kv[metadataKey(key)])
         /\ ChunkedMetadata(kv[metadataKey(key)]))
            => \A i \in 0..(ChunkCountOf(kv[metadataKey(key)]) - 1) :
                   chunkKey(key, i) \in DOMAIN kv

\* a reader came while the server had executed the SET of the metadata and
\* of the first chunk: GetLarge failed on the missing second chunk
PartialChunksObserved ==
    /\ inflight.op = "SetLargeWithDependencies"
    /\ ~inflight.cut
    /\ inflight.at = 2
    /\ metadataKey(inflight.key) \in DOMAIN kv
    /\ chunkKey(inflight.key, 0) \in DOMAIN kv
    /\ chunkKey(inflight.key, 1) \notin DOMAIN kv
    /\ last.op = "GetLarge"
    /\ last.key = inflight.key
    /\ last.err \notin {OK, ErrKeyNotFound}

(***************************************************************************)
(* C24: the accepted stale re-cache race.  With FindByID and Update of one *)
(* entity running at the same time, whenever the reader queried the store  *)
(* before the writer saved and stored its result after the writer's        *)
(* invalidation, then once both have returned the cache holds the value    *)
(* from before the write, the store holds the written one, and a FindByID  *)
(* made now returns the old value as a cache hit.                          *)
(***************************************************************************)
\* step a was taken before step b
Before(a, b) ==
    \E i, j \in DOMAIN inflight.log :
        i < j /\ inflight.log[i] = a /\ inflight.log[j] = b

\* the interleaving of the race
ReadBeforeWriteStoredAfter ==
    /\ BothReturned
    /\ Before("query", "save")
    /\ Before("invalidate", "store")
    /\ inflight.reader.stored
    /\ inflight.writer.entity # inflight.reader.entity

StaleRecache ==
    ReadBeforeWriteStoredAfter =>
        /\ kv[generateCacheKey(RaceTable, "find_by_id", FmtV(RaceId))]
               = marshalEntity(RaceTable, inflight.reader.entity)
        /\ db[RaceTable][RaceId] = inflight.writer.entity
        /\ FindByID(Backend, RaceTable, RaceId, 0).hit
        /\ FindByID(Backend, RaceTable, RaceId, 0).rows = <<inflight.reader.entity>>
        /\ FindByID(Backend, RaceTable, RaceId, 0).rows # <<db[RaceTable][RaceId]>>

\* the later FindByID has returned, as a cache hit, a user that the store no
\* longer holds
StaleRecacheWitness ==
    /\ ReadBeforeWriteStoredAfter
    /\ last.op = "FindByID"
    /\ last.err = OK
    /\ last.hit
    /\ last.rows = <<inflight.reader.entity>>
    /\ last.rows[1].Name # db[RaceTable][RaceId].Name

(***************************************************************************)
(* C25: Create, Update and Delete return cacheInvalidated = TRUE only if   *)
(* the related caches were invalidated: with the cache backend disabled,   *)
(* or with an invalidation command failed, the flag is FALSE.              *)
(***************************************************************************)
SingleWrites == {"Create", "Update", "Delete"}

InvalidatedMeansInvalidated ==
    (last.op \in SingleWrites /\ last.inval) =>
        /\ cacheMode = "enabled"
        /\ ~last.dropped

\* a write has returned TRUE although the backend rejected a command of its
\* invalidation
InvalidatedReportedOnFailure ==
    /\ last.op \in SingleWrites
    /\ last.err = OK
    /\ last.inval
    /\ last.dropped
    /\ \E i \in DOMAIN trace : trace[i].sys = "redis" /\ trace[i].cmd \in faults

(***************************************************************************)
(* C26: key generation is deterministic.  Two computations of a key by the *)
(* same function from equal inputs give the same key, whatever the cache   *)
(* held at the time, whatever was computed before, and in whatever order   *)
(* the keys of a map-typed query were iterated.                            *)
(***************************************************************************)
SameInputs(a, b) == a.fn = b.fn /\ a.operation = b.operation /\ a.arg = b.arg

KeysAreDeterministic ==
    \A a, b \in inflight.made : SameInputs(a, b) => a.key = b.key

\* the key of one map-typed query has been computed twice, under two
\* iteration orders and over two cache contents
SameKeyTwoOrders ==
    \E a, b \in inflight.made :
        /\ SameInputs(a, b)
        /\ a.arg.kind = "map"
        /\ a.order # b.order
        /\ a.seen # b.seen
        /\ a.nth # b.nth
        /\ a.key = b.key

(***************************************************************************)
(* C27: a key computed by generateCacheKey always carries a separator      *)
(* after the operation, also when the discriminator is the empty string,   *)
(* so that a key with an empty discriminator differs from the key of the   *)
(* operation alone.                                                        *)
(***************************************************************************)
\* the key of an operation that has no discriminator
OperationKey(t, operation) ==
    cacheKeyPrefix \o cacheKeySeparator \o dbName \o cacheKeySeparator \o t
        \o cacheKeySeparator \o operation

SeparatorFollowsOperation ==
    \A a \in inflight.made :
        a.fn = "generateCacheKey" =>
            /\ HasPrefix(a.key, OperationKey("users", a.operation) \o cacheKeySeparator)
            /\ a.key # OperationKey("users", a.operation)

\* a key has been computed from an empty discriminator, and it is the key of
\* the operation alone
EmptyDiscriminatorKeyIsBare ==
    \E a \in inflight.made :
        /\ a.fn = "generateCacheKey"
        /\ a.arg.suffix = ""
        /\ a.key = OperationKey("users", a.operation)
        /\ ~HasSuffix(a.key, cacheKeySeparator)

(***************************************************************************)
(* C28: when the cache store step of FindAll or FindWhere refuses the      *)
(* result as too large, the read returns a failure to its caller.          *)
(***************************************************************************)
ListReads == {"FindAll", "FindWhere"}

\* the last call was a list read that queried the store and went on to cache
\* a result longer than the ceiling
StoredTooLarge ==
    /\ last.op \in ListReads
    /\ hasRedis
    /\ last.op = "FindWhere" => last.query.kind # "gormDB"
    /\ ~last.hit
    /\ last.dbFail = 0
    /\ Len(marshalEntities(last.table, last.rows)) > MaxValueSize

TooLargeIsReturned == StoredTooLarge => last.err # OK

\* a FindWhere has returned its rows and no error although the store step
\* refused them: nothing was written for its key
TooLargeDropped ==
    /\ StoredTooLarge
    /\ last.op = "FindWhere"
    /\ last.rows # <<>>
    /\ last.err = OK
    /\ ~last.stored
    /\ last.dropped
    /\ \A i \in DOMAIN trace : trace[i].sys = "redis" => trace[i].cmd \notin {"SET", "SADD"}
    /\ ~Cached(DOMAIN kv, KeyOfRead(last))

(***************************************************************************)
(* C29: InvalidateCache is scoped to one database and table.  When it      *)
(* returns without error for table t, no entry of t in this database is    *)
(* left in the cache (the keys of FindByID, FindAll, Count, FindWhere and  *)
(* First, their metadata keys and their chunk keys), and every other key   *)
(* (of the other table, of another database) holds what it held.           *)
(***************************************************************************)
\* the most chunks an entry is looked for
MaxChunks == 4

\* the keys the repository of t computes
BaseKeys(t) ==
    {generateCacheKey(t, "find_by_id", FmtV(id)) : id \in Ids(t)}
        \cup {generateCacheKey(t, "find_all", ""), generateCacheKey(t, "count", "")}
        \cup {generateCacheKeyFromQuery(t, operation, query) :
                 operation \in {"find_where", "first"}, query \in Queries(t)}

\* the keys under which the cache keeps their values
EntryKeys(t) ==
    BaseKeys(t)
        \cup {metadataKey(k) : k \in BaseKeys(t)}
        \cup {chunkKey(k, i) : k \in BaseKeys(t), i \in 0..MaxChunks}

InvalidateCacheIsScoped ==
    [][(calls' # calls /\ last'.op = "InvalidateCache" /\ last'.err = OK) =>
          /\ DOMAIN kv' \cap EntryKeys(last'.table) = {}
          /\ \A k \in DOMAIN kv \ EntryKeys(last'.table) : k \in DOMAIN kv' /\ kv'[k] = kv[k]
          /\ DOMAIN kv' \subseteq DOMAIN kv]_vars

\* the namespace of users has been invalidated: the chunked FindAll of users
\* is gone, the FindAll of orders and the entry of the other database remain
InvalidateCacheIsScopedWitness ==
    /\ last.op = "InvalidateCache"
    /\ last.table = "users"
    /\ last.err = OK
    /\ \E i \in DOMAIN trace :
          /\ trace[i].cmd = "DEL"
          /\ metadataKey(generateCacheKey("users", "find_all", "")) \in trace[i].keys
    /\ \E i \in DOMAIN trace :
          /\ trace[i].cmd = "DEL"
          /\ chunkKey(generateCacheKey("users", "find_all", ""), 0) \in trace[i].keys
    /\ DOMAIN kv \cap EntryKeys("users") = {}
    /\ Cached(DOMAIN kv, generateCacheKey("orders", "find_all", ""))
    /\ DOMAIN OtherStoreEntries \subseteq DOMAIN kv

(***************************************************************************)
(* C30: during the invalidation of one write the related identities are    *)
(* deduplicated: InvalidateEntityDependencies is invoked at most once for  *)
(* each identity.                                                          *)
(***************************************************************************)
InvalidatedOncePerIdentity ==
    (last.op \in Writes /\ last.inval) =>
        \A i, j \in DOMAIN Attempted(trace) :
            Attempted(trace)[i] = Attempted(trace)[j] => i = j

\* a write of a user whose relationships name the same order twice has
\* invalidated the dependency set of that order twice
IdentityInvalidatedTwice ==
    /\ last.op \in {"Create", "Update"}
    /\ last.err = OK
    /\ last.inval
    /\ \E i, j \in DOMAIN last.entities[1].Relationships :
          i # j /\ last.entities[1].Relationships[i] = last.entities[1].Relationships[j]
    /\ \E i, j \in DOMAIN Attempted(trace) :
          /\ i < j
          /\ Attempted(trace)[i] = dependencyKey("orders", FmtV(OrderId))
          /\ Attempted(trace)[j] = dependencyKey("orders", FmtV(OrderId))

(***************************************************************************)
(* C31: store-only mode.  With a nil cache manager, or a manager whose     *)
(* config has Enabled = false, every read returns the store's result with  *)
(* cacheHit and cacheStored false, every write returns the store's error   *)
(* outcome, no command reaches the cache backend (each operation of the    *)
(* manager returns ErrCacheDisabled), the cache is left as it was, and     *)
(* Ping returns nil.                                                       *)
(***************************************************************************)
\* the operations of a disabled manager all return ErrCacheDisabled
ManagerRefuses ==
    /\ Get(Backend, "k").err = ErrCacheDisabled
    /\ Set(Backend, "k", "v").err = ErrCacheDisabled
    /\ DeleteKeys(Backend, {"k"}).err = ErrCacheDisabled
    /\ Exists(Backend, "k").err = ErrCacheDisabled
    /\ InvalidatePattern(Backend, "k*").err = ErrCacheDisabled
    /\ SetLarge(Backend, "k", "v").err = ErrCacheDisabled
    /\ GetLarge(Backend, "k").err = ErrCacheDisabled
    /\ DeleteLarge(Backend, "k").err = ErrCacheDisabled
    /\ AddDependency(Backend, "users", "1", "k").err = ErrCacheDisabled
    /\ AddMultipleDependencies(Backend, <<<<"users", "1">>>>, "k").err = ErrCacheDisabled
    /\ InvalidateEntityDependencies(Backend, "users", "1").err = ErrCacheDisabled
    /\ SetWithDependencies(Backend, "k", "v", <<<<"users", "1">>>>).err = ErrCacheDisabled
    /\ SetLargeWithDependencies(Backend, "k", "v", <<<<"users", "1">>>>).err = ErrCacheDisabled
    /\ GetDependencies(Backend, "users", "1").err = ErrCacheDisabled

StoreOnlyMode ==
    [][(calls' # calls /\ cacheMode # "enabled") =>
          /\ CacheCommands(trace') = <<>>
          /\ kv' = kv
          /\ sets' = sets
          /\ cacheMode = "disabled" => ManagerRefuses
          /\ last'.op \in Reads =>
                /\ ~last'.hit
                /\ ~last'.stored
                /\ last'.dbFail = 0 =>
                      /\ last'.err = OK
                      /\ last'.rows = StoreRows(db, last')
                      /\ last'.n = StoreCount(db, last')
                /\ last'.dbFail = 1 => last'.err = DbError
          /\ last'.op \in Writes => last'.err = StoreError(db, last')
          /\ last'.op = "Ping" => last'.err = OK]_vars

\* with the manager disabled, FindByID has returned the user the store holds
\* although the cache holds another under the key
StoreOnlyModeWitness ==
    /\ cacheMode = "disabled"
    /\ last.op = "FindByID"
    /\ last.err = OK
    /\ ~last.hit
    /\ ~last.stored
    /\ last.rows = <<db["users"][1]>>
    /\ trace # <<>>
    /\ KeyOfRead(last) \in DOMAIN kv
    /\ kv[KeyOfRead(last)] # marshalEntity("users", last.rows[1])

(***************************************************************************)
(* C32: singleton initialization is permanent.  The initialization runs at *)
(* most once, whatever the number of goroutines calling at the same time.  *)
(* After a first call that failed, every call returns no instance and the  *)
(* error of that first attempt; after a first call that succeeded, every   *)
(* call returns the instance it built, whatever its own config argument.   *)
(***************************************************************************)
SingletonIsPermanent ==
    /\ inflight.inits <= 1
    /\ \A i \in DOMAIN inflight.returned :
          IF inflight.first.err # OK
          THEN /\ inflight.returned[i].instance = NoInstance
               /\ inflight.returned[i].err = ErrSingletonPrefix \o inflight.first.err
          ELSE /\ inflight.returned[i].instance = inflight.first.config
               /\ inflight.returned[i].err = OK

\* the first attempt failed to connect and its caller got that error; a later
\* call with a configuration that would connect got no instance and the
\* unknown error
FirstErrorForgotten ==
    /\ inflight.inits = 1
    /\ inflight.first.err = ErrConnect
    /\ inflight.instance = NoInstance
    /\ \E i, j \in DOMAIN inflight.returned :
          /\ i < j
          /\ inflight.returned[i].err = ErrSingletonPrefix \o ErrConnect
          /\ inflight.returned[j].config = "primary"
          /\ inflight.returned[j].instance = NoInstance
          /\ inflight.returned[j].err = ErrSingletonUnknown

(***************************************************************************)
(* C33: metadata agrees with what is stored.  After SetLarge calls on one  *)
(* key with values of differing size and compressibility, a GetLarge that  *)
(* follows a successful SetLarge returns exactly the payload of that       *)
(* SetLarge, and a GetLarge that follows a successful DeleteLarge returns  *)
(* not-found.                                                              *)
(***************************************************************************)
LastStoreIsRead ==
    last.op = "GetLarge" =>
        /\ (last.prev.op = "SetLarge" /\ last.prev.err = OK)
               => (last.err = OK /\ last.value = last.prev.value)
        /\ (last.prev.op = "DeleteLarge" /\ last.prev.err = OK)
               => last.err = ErrKeyNotFound

\* a short value was stored with success over a chunked one, whose metadata
\* is still there, and the GetLarge that followed did not return it
StaleMetadataRead ==
    /\ last.op = "GetLarge"
    /\ last.prev.op = "SetLarge"
    /\ last.prev.err = OK
    /\ ~last.prev.fresh
    /\ Len(last.prev.value) <= CompressThreshold
    /\ LargeKey \in DOMAIN kv
    /\ kv[LargeKey] = last.prev.value
    /\ metadataKey(LargeKey) \in DOMAIN kv
    /\ HasPrefix(kv[metadataKey(LargeKey)], "chunked:")
    /\ last.err # OK \/ last.value # last.prev.value

(***************************************************************************)
(* C34: a GetLarge that runs while the key is stored again or deleted      *)
(* returns an error, not-found, or one of the payloads stored under the    *)
(* key, complete: never bytes put together from the chunks of two stored   *)
(* values.                                                                 *)
(***************************************************************************)
ReadsAreWhole ==
    (last.op = "GetLarge" /\ last.err = OK) => last.val \in last.stored

\* with the first chunk of the new value written and the second chunk still
\* that of the old one, GetLarge has returned the two joined
ChunksOfTwoValuesRead ==
    /\ last.op = "GetLarge"
    /\ last.err = OK
    /\ inflight.op = "SetLarge"
    /\ 0 < inflight.at
    /\ inflight.at < Len(inflight.tr)
    /\ last.val \notin last.stored
    /\ Len(last.val) = MaxValueSize
    /\ last.val = kv[chunkKey(LargeKey, 0)] \o kv[chunkKey(LargeKey, 1)]
    /\ kv[chunkKey(LargeKey, 0)] = SubSeq(inflight.value, 1, ChunkSize)
    /\ kv[chunkKey(LargeKey, 1)] # SubSeq(inflight.value, ChunkSize + 1, Len(inflight.value))

(***************************************************************************)
(* C35: no link is lost to a concurrent invalidation.  When a key is       *)
(* stored and linked to an entity while InvalidateEntityDependencies of    *)
(* that entity runs, then once both have finished the value of the key is  *)
(* gone from the cache or the key is a member of the entity's set.         *)
(***************************************************************************)
InvalidatedSet == dependencyKey(InvalidatedEntity[1], InvalidatedEntity[2])

NoLinkIsLost ==
    (inflight.pc = "returned" /\ ~inflight.after) =>
        \A key \in inflight.during :
            \/ ~StoredValue(kv, key)
            \/ InvalidatedSet \in DOMAIN sets /\ key \in sets[InvalidatedSet]

\* the invalidation has returned; a key linked to the entity after its
\* SMEMBERS still has its value, and the entity has no set
LinkLost ==
    /\ inflight.pc = "returned"
    /\ ~inflight.after
    /\ inflight.members # {}
    /\ \E key \in inflight.during :
          /\ key \notin inflight.members
          /\ StoredValue(kv, key)
          /\ InvalidatedSet \notin DOMAIN sets

(***************************************************************************)
(* C36: when InvalidateEntityDependencies returns nil, every key that was  *)
(* a member of the entity's dependency set when the call began has no      *)
(* base, metadata or chunk key left in the cache.                          *)
(***************************************************************************)
\* the keys the cache keeps the value of a key under
ValueKeys(key) ==
    {key, metadataKey(key)} \cup {chunkKey(key, i) : i \in 0..MaxChunks}

InvalidatedMembersDeleted ==
    [][(calls' # calls /\ last'.op = "InvalidateEntityDependencies" /\ last'.err = OK) =>
          LET dk == dependencyKey(last'.deps[1][1], last'.deps[1][2])
          IN  IF dk \in DOMAIN sets
              THEN \A key \in sets[dk] : ValueKeys(key) \cap DOMAIN kv' = {}
              ELSE TRUE]_vars

\* the call returned nil and deleted the set; a value linked to the set is
\* still in the cache, its DeleteLarge having failed
MemberLeftBehind ==
    /\ last.op = "InvalidateEntityDependencies"
    /\ last.err = OK
    /\ "GET" \in faults
    /\ LET dk == dependencyKey(last.deps[1][1], last.deps[1][2])
       IN  /\ dk \notin DOMAIN sets
           /\ \E i \in DOMAIN trace : trace[i].cmd = "DEL" /\ dk \in trace[i].keys
           /\ \E l \in clock.links : l[1] = dk /\ StoredValue(kv, l[2])

(***************************************************************************)
(* C37: dependency sets are isolated per store.  What a repository of one  *)
(* store links or invalidates for the identity (users, 1) leaves the       *)
(* dependency set of (users, 1) of another store as it was and deletes no  *)
(* value the other store cached, also when both share one backend.         *)
(***************************************************************************)
OtherStoreIsolated ==
    /\ \A k \in DOMAIN OtherStoreLinked.kv : k \in DOMAIN kv /\ kv[k] = OtherStoreLinked.kv[k]
    /\ dependencyKey("users", "1") \in DOMAIN sets
    /\ sets[dependencyKey("users", "1")] = OtherStoreLinked.sets[dependencyKey("users", "1")]

\* a write of this store's user 1 has deleted what the other store cached
OtherStoreInvalidated ==
    /\ last.op \in {"Update", "Delete"}
    /\ last.id = 1
    /\ last.err = OK
    /\ DOMAIN OtherStoreLinked.kv \cap DOMAIN kv = {}
    /\ \E i \in DOMAIN trace : trace[i].cmd = "SMEMBERS"
                                  /\ dependencyKey("users", "1") \in trace[i].keys

(***************************************************************************)
(* C38: chained modifiers are part of the identity of a cached query.  A   *)
(* FindAll that is a cache hit returns what the query of its repository,   *)
(* with the limit of its modifier chain, returns from the store.           *)
(***************************************************************************)
HitIsTheModifiedQuery ==
    (last.op = "FindAll" /\ last.hit /\ last.err = OK) =>
        last.rows = limitedRows(allRows(db, last.table), last.query.arg)

\* a FindAll of the repository itself is a cache hit and returns the list
\* that a repository derived through Limit cached, shorter than the table
LimitedListServed ==
    /\ last.op = "FindAll"
    /\ last.hit
    /\ last.err = OK
    /\ last.query.arg = NoLimit
    /\ Len(last.rows) < Len(allRows(db, last.table))
    /\ last.rows = limitedRows(allRows(db, last.table), Len(last.rows))

(***************************************************************************)
(* C39: InvalidatePattern scans step by step and ends at the step that     *)
(* returns cursor 0; when it returns nil no key that matches the pattern   *)
(* is left; when a SCAN or DEL fails it returns the error at once, with no *)
(* command after the failed one.                                           *)
(***************************************************************************)
\* the positions of a command in the trace of the last call
Sent(cmd) == {i \in DOMAIN trace : trace[i].cmd = cmd}

ScanEndsClean ==
    last.op = "InvalidatePattern" =>
        IF last.err = OK
        THEN /\ Cardinality(Sent("SCAN")) = ScanSlots
             /\ \A k \in DOMAIN kv \cup DOMAIN sets : ~GlobMatch(last.pattern, k)
        ELSE /\ trace # <<>>
             /\ trace[Len(trace)].cmd \in faults
             /\ \A i \in 1..(Len(trace) - 1) : trace[i].cmd \notin faults

\* the call returned nil after it deleted a batch in every step of the walk
EveryBatchDeleted ==
    /\ last.op = "InvalidatePattern"
    /\ last.err = OK
    /\ Cardinality(Sent("DEL")) = ScanSlots
    /\ Cardinality(Sent("SCAN")) = ScanSlots

(***************************************************************************)
(* C40: after InvalidateRelationships(entityType, entityID) returns nil,   *)
(* the entries the repository created for that entity type, the            *)
(* find_by_id entry of entityID among them, are absent from the cache.     *)
(***************************************************************************)
RelationshipsInvalidated ==
    (last.op = "InvalidateRelationships" /\ last.err = OK /\ ~last.dropped) =>
        EntryKeys(last.table) \cap DOMAIN kv = {}

\* the call ran under the default configuration on a working backend and
\* returned nil; the find_by_id entry of the entity is still in the cache
EntryOutlivesRelationships ==
    /\ last.op = "InvalidateRelationships"
    /\ last.err = OK
    /\ faults = {}
    /\ last.query.arg = <<>>
    /\ Cardinality({i \in DOMAIN trace : trace[i].cmd = "SCAN"}) = 2 * ScanSlots
    /\ generateCacheKey(last.table, "find_by_id", FmtV(last.id)) \in DOMAIN kv

====
